---- MODULE Spec2Model ----
(***************************************************************************)
(* Session bridge of the telephony service (src/telephony/main.py):        *)
(* the model reader (_gemini_reader), the terminal action                  *)
(* (_handle_call_end, send_transfer_event, send_hangup_event), the output  *)
(* pacer (_audio_sender) and the client receive loop with its teardown     *)
(* (handle_client), communicating through one TelephonySession record.     *)
(*                                                                         *)
(* Texts are sequences of words; the empty sequence stands for None / "".  *)
(* A phrase is "in" a text when its words occur contiguously in it.        *)
(***************************************************************************)
EXTENDS Integers, Sequences, FiniteSets, TLC

\* ------------------------------------------------------------------------
\* Bounds of the model
\* ------------------------------------------------------------------------
\* seconds of call age that one Tick of the clock stands for
TimeUnit == 20
\* most transcription events of one call
MaxTranscripts == 2
\* samples of one pacer chunk (cfg.AUDIO_BUFFER_SAMPLES_OUTPUT, scaled down)
ChunkSamples == 2
\* most chunks the model lets the output buffer hold
MaxBufferChunks == 1
\* number of 100 ms polls after which the drain wait gives up (5 s, scaled down)
DrainPolls == 1

\* ------------------------------------------------------------------------
\* Program constants
\* ------------------------------------------------------------------------
SETUP_GRACE_S == 10
END_CALL_MIN_S == 60
GOODBYE_MIN_AGE_S == 30
XFADE == 8

\* the clock stops at the first Tick at or after the longest age threshold
MaxTicks == (END_CALL_MIN_S + TimeUnit - 1) \div TimeUnit

\* ------------------------------------------------------------------------
\* Texts
\* ------------------------------------------------------------------------
NoText == << >>

\* str.lower() of one word
LowerWord(w) ==
    CASE w = "Nahi" -> "nahi"
      [] w = "Namaste" -> "namaste"
      [] w = "Acknowledged." -> "acknowledged."
      [] OTHER -> w

Lower(text) == [i \in 1..Len(text) |-> LowerWord(text[i])]

_normalize_text(text) == Lower(text)

\* phrase in text (substring test on whole words)
Contains(text, phrase) ==
    \E i \in 0..(Len(text) - Len(phrase)) :
        \A j \in 1..Len(phrase) : text[i + j] = phrase[j]

ContainsAny(text, phrases) == \E p \in phrases : Contains(text, p)

NEGATIVE_TEXTS ==
    { <<"no">>, <<"n">>, <<"nope">>, <<"nah">>, <<"nahi">>, <<"nahin">>,
      <<"nahi", "ji">>, <<"mat">> }

_is_negative(text) == _normalize_text(text) \in NEGATIVE_TEXTS

TRANSFER_PHRASES ==
    { <<"talk", "to", "a", "person">>, <<"talk", "to", "someone">>,
      <<"talk", "to", "sales">>, <<"talk", "to", "agent">>,
      <<"talk", "to", "dealer">>, <<"connect", "me", "to">>,
      <<"connect", "to", "dealer">>, <<"connect", "to", "sales">>,
      <<"speak", "to">>, <<"kisi", "se", "baat">>, <<"agent", "se", "baat">>,
      <<"dealer", "se", "baat">>, <<"sales", "team", "se", "baat">>,
      <<"insaan", "se", "baat">>, <<"baat", "karao">>,
      <<"baat", "karni", "hai">> }

_is_explicit_transfer_request(text) ==
    /\ _normalize_text(text) # NoText
    /\ ContainsAny(_normalize_text(text), TRANSFER_PHRASES)

TRANSFER_QUESTION_PHRASES ==
    { <<"sales", "team">>, <<"speak", "with", "our", "sales">>,
      <<"sales", "team", "se", "baat">>,
      <<"sales", "team", "se", "baat", "karna", "chahenge">> }

_is_transfer_question(text) ==
    /\ _normalize_text(text) # NoText
    /\ ContainsAny(_normalize_text(text), TRANSFER_QUESTION_PHRASES)

GOODBYE_PHRASES ==
    { <<"have", "a", "great", "day">>, <<"have", "a", "good", "day">>,
      <<"have", "a", "nice", "day">>, <<"din", "shubh", "ho">>,
      <<"aapka", "din", "shubh">>, <<"namaste", "aur", "dhanyawad">>,
      <<"call", "karne", "ke", "liye", "dhanyawad">>,
      <<"thank", "you", "for", "calling">>, <<"thanks", "for", "calling">>,
      <<"goodbye">>, <<"good", "bye">>, <<"alvida">> }

_is_goodbye_message(text) ==
    /\ text # NoText
    /\ ContainsAny(Lower(text), GOODBYE_PHRASES)

\* ------------------------------------------------------------------------
\* Runtime language detection
\* ------------------------------------------------------------------------
_HINDI_WORDS ==
    { "mein", "hai", "hain", "ho", "hoon", "hun", "tha", "thi",
      "kya", "aur", "nahi", "haan", "ji", "naa",
      "chahiye", "chahenge", "chahte", "chahti",
      "karni", "karna", "karte", "karti", "karo",
      "batao", "bata", "batana", "bataye",
      "mujhe", "humko", "hamein", "unko",
      "humare", "aapka", "aapke", "aapki", "tumhara",
      "toh", "theek", "accha", "bahut",
      "abhi", "kal", "aaj", "parso",
      "dena", "denge", "dijiye",
      "lena", "lenge", "lijiye",
      "suno", "suniye", "dekho", "dekhiye",
      "apna", "apni", "apne",
      "yeh", "woh", "koi", "kuch",
      "lekin", "ya", "phir", "agar",
      "dhanyawad", "shukriya", "namaste",
      "baat", "gaadi", "paisa", "naam",
      "ka", "ki", "ke", "ko", "se", "pe", "par", "tak",
      "mera", "teri", "uska", "uski",
      "kaisa", "kaisi", "kaise", "kitna", "kitni",
      "jaldi", "dhire", "achha",
      "swagat", "madad", "sakti", "sakta" }

\* words of one character (len(w) > 1 fails for them)
ONE_CHAR_WORDS == { "a", "i", "n", "y" }

\* words of two characters (len(w) > 2 fails for them and the one-character words)
TWO_CHAR_WORDS ==
    { "ji", "ho", "ya", "ka", "ki", "ke", "ko", "se", "pe", "me", "to", "is",
      "am", "no", "ok", "42", "my", "it", "on", "mg", "do" }

\* words holding "@" or one of the fragments gmail, yahoo, hotmail, outlook,
\* .com, .in, .co
EMAIL_WORDS == { "rohit@gmail.com", "gmail", "yahoo.in" }

\* words written in Devanagari (U+0900..U+097F), named here in ASCII
DEVANAGARI_WORDS == { "dev_nahin", "dev_mujhe" }

\* number of digit characters of a word
DigitCount(w) ==
    CASE w = "9876543210" -> 10
      [] w = "98765" -> 5
      [] w = "42" -> 2
      [] OTHER -> 0

RECURSIVE SumDigits(_)
SumDigits(text) ==
    IF text = << >> THEN 0 ELSE DigitCount(Head(text)) + SumDigits(Tail(text))

WordsOf(text) == { text[i] : i \in 1..Len(text) }

CountIn(text, words) == Cardinality({ i \in 1..Len(text) : text[i] \in words })

_YES_NO_STARTS ==
    { "yes", "no", "yeah", "yep", "nah", "ok", "okay", "sure",
      "haan", "nahi", "nahin", "ji", "bilkul", "theek", "hmm",
      "accha", "right" }

\* patterns that end in a blank need a following word
_NAME_PATTERNS_OPEN ==
    { <<"i", "am">>, <<"i'm">>, <<"this", "is">>, <<"naam">>, <<"it's">>,
      <<"call", "me">> }

_NAME_PATTERNS == { <<"my", "name", "is">>, <<"my", "name's">>, <<"mera", "naam">> }

_DATE_WORDS ==
    { <<"tomorrow">>, <<"today">>, <<"yesterday">>,
      <<"monday">>, <<"tuesday">>, <<"wednesday">>, <<"thursday">>,
      <<"friday">>, <<"saturday">>, <<"sunday">>,
      <<"kal">>, <<"aaj">>, <<"parso">>,
      <<"next", "week">>, <<"this", "week">>, <<"day", "after">> }

_ADDR_WORDS ==
    { <<"road">>, <<"street">>, <<"nagar">>, <<"colony">>, <<"sector">>,
      <<"marg">>, <<"lane">>, <<"avenue">>, <<"block">>, <<"phase">>,
      <<"floor">>, <<"flat">>, <<"building">>, <<"chowk">>, <<"bazaar">>,
      <<"market">>, <<"pin", "code">>, <<"pincode">>, <<"area">> }

PHONE_MIN_DIGITS == 7

\* an open pattern followed by at least one more word
ContainsOpen(text, phrase) ==
    \E i \in 0..(Len(text) - Len(phrase) - 1) :
        \A j \in 1..Len(phrase) : text[i + j] = phrase[j]

\* a recogniser without the phone-number rule
_is_data_response_no_phone(text) ==
    LET tl == Lower(text) IN
    /\ tl # NoText
    /\ \/ Head(tl) \in _YES_NO_STARTS
       \/ ContainsAny(tl, _NAME_PATTERNS)
       \/ \E p \in _NAME_PATTERNS_OPEN : ContainsOpen(tl, p)
       \/ ContainsAny(tl, _DATE_WORDS)
       \/ ContainsAny(tl, _ADDR_WORDS)

_is_data_response(text) ==
    LET tl == Lower(text) IN
    /\ tl # NoText
    /\ \/ Head(tl) \in _YES_NO_STARTS
       \/ ContainsAny(tl, _NAME_PATTERNS)
       \/ \E p \in _NAME_PATTERNS_OPEN : ContainsOpen(tl, p)
       \/ ContainsAny(tl, _DATE_WORDS)
       \/ ContainsAny(tl, _ADDR_WORDS)
       \/ SumDigits(tl) >= PHONE_MIN_DIGITS

MEANINGFUL_MIN_WORDS == 4
HINDI_COUNT_MIN == 3

\* a classification by script and length only, without the data-response rule
_detect_language_by_length(text) ==
    LET meaningful == Len(text) - CountIn(text, ONE_CHAR_WORDS)
        hindi_count ==
            Cardinality({ i \in 1..Len(text) :
                /\ text[i] \notin ONE_CHAR_WORDS
                /\ LowerWord(text[i]) \in _HINDI_WORDS })
    IN  IF text = NoText THEN <<"unknown", "A">>
        ELSE IF WordsOf(text) \cap DEVANAGARI_WORDS # {} THEN <<"hindi", "A">>
        ELSE IF meaningful < MEANINGFUL_MIN_WORDS THEN <<"unknown", "A">>
        ELSE IF 4 * hindi_count >= meaningful \/ hindi_count >= HINDI_COUNT_MIN
             THEN <<"hindi", "B">>
             ELSE <<"english", "B">>

\* _detect_language: <<language, category>>
_detect_language(text) ==
    LET meaningful == Len(text) - CountIn(text, ONE_CHAR_WORDS)
        hindi_count ==
            Cardinality({ i \in 1..Len(text) :
                /\ text[i] \notin ONE_CHAR_WORDS
                /\ LowerWord(text[i]) \in _HINDI_WORDS })
    IN  IF text = NoText THEN <<"unknown", "A">>
        ELSE IF WordsOf(Lower(text)) \cap EMAIL_WORDS # {} THEN <<"unknown", "A">>
        ELSE IF _is_data_response(text) THEN <<"unknown", "A">>
        ELSE IF WordsOf(text) \cap DEVANAGARI_WORDS # {}
             THEN IF meaningful < MEANINGFUL_MIN_WORDS THEN <<"hindi", "A">>
                  ELSE IF \E i \in 1..Len(text) :
                             /\ text[i] \in _HINDI_WORDS
                             /\ text[i] \notin (ONE_CHAR_WORDS \cup TWO_CHAR_WORDS)
                       THEN <<"hindi", "B">>
                       ELSE <<"hindi", "A">>
        ELSE IF meaningful < MEANINGFUL_MIN_WORDS THEN <<"unknown", "A">>
        ELSE IF 4 * hindi_count >= meaningful \/ hindi_count >= HINDI_COUNT_MIN
             THEN <<"hindi", "B">>
             ELSE <<"english", "B">>

\* _detect_agent_language: 20 % or more Hindi words -> hindi
_detect_agent_language(text) ==
    LET total == Len(text) - CountIn(text, ONE_CHAR_WORDS)
        hindi_count ==
            Cardinality({ i \in 1..Len(text) :
                /\ text[i] \notin ONE_CHAR_WORDS
                /\ LowerWord(text[i]) \in _HINDI_WORDS })
    IN  IF total = 0 THEN "unknown"
        ELSE IF 5 * hindi_count >= total THEN "hindi"
        ELSE "english"

\* ------------------------------------------------------------------------
\* Audio: crossfade append of one decoded chunk (8 kHz samples)
\* ------------------------------------------------------------------------
Min(a, b) == IF a < b THEN a ELSE b

\* int(x / d) of Python: truncation towards zero
TruncDiv(x, d) == IF x >= 0 THEN x \div d ELSE -((-x) \div d)

\* output_buffer after the reader has buffered samples_8k
CrossfadeAppend(output_buffer, samples_8k) ==
    IF output_buffer # << >> /\ Len(samples_8k) > XFADE
    THEN LET buf_len == Len(output_buffer)
             blended ==
                 [k \in 1..buf_len |->
                     LET i == k - 1 - (buf_len - XFADE)
                     IN  IF i >= 0 /\ i < Min(XFADE, buf_len)
                         THEN TruncDiv(output_buffer[k] * (XFADE - (i + 1))
                                         + samples_8k[i + 1] * (i + 1), XFADE)
                         ELSE output_buffer[k]]
         IN  blended \o SubSeq(samples_8k, XFADE + 1, Len(samples_8k))
    ELSE output_buffer \o samples_8k

ACK_PATTERNS ==
    { <<"[acknowledged.">>, <<"[acknowledged">>, <<"acknowledged.">>,
      <<"the", "customer", "is", "speaking">>, <<"i", "will", "respond", "in">> }

\* ------------------------------------------------------------------------
\* Messages of the model link
\* ------------------------------------------------------------------------
UserFragments == { <<"Nahi">>, <<"haan">>, <<"connect", "me", "to", "sales">> }

\* the transfer question in Hindi and in English, and a Hindi goodbye
AgentFragments ==
    { <<"sales", "team", "se", "baat">>,
      <<"speak", "with", "our", "sales", "team">>,
      <<"Namaste", "aur", "dhanyawad">> }

\* decoded audio of one message: one chunk
AudioChunks == { [i \in 1..ChunkSamples |-> 1] }

CallIds == { "fc1" }

FunctionNames == { "transfer_call", "end_call" }

NoMsg ==
    [interrupted |-> FALSE, fc |-> "none", id |-> "", turnComplete |-> FALSE,
     speaker |-> "none", text |-> NoText, audio |-> << >>]

Transcriptions ==
    { <<"none", NoText>> }
    \cup { <<"user", t>> : t \in UserFragments }
    \cup { <<"agent", t>> : t \in AgentFragments }

\* messages the far end may send: an interruption, a function call, a
\* transcription fragment or audio, each with or without a turn boundary
Messages ==
    { [NoMsg EXCEPT !.interrupted = TRUE, !.turnComplete = tc] : tc \in BOOLEAN }
    \cup { [NoMsg EXCEPT !.fc = f, !.id = c, !.turnComplete = tc] :
             f \in FunctionNames, c \in CallIds, tc \in BOOLEAN }
    \cup { [NoMsg EXCEPT !.turnComplete = tc, !.speaker = tr[1], !.text = tr[2]] :
             tc \in BOOLEAN, tr \in Transcriptions }
    \cup { [NoMsg EXCEPT !.turnComplete = tc, !.audio = a] :
             tc \in BOOLEAN, a \in AudioChunks }

\* function-response payloads: sets of <<key, value>>
RESP_IGNORED == { <<"status", "ignored">>, <<"note", "continue the conversation">> }
RESP_TOO_EARLY == { <<"error", "call just started">> }
RESP_TRANSFER_DENIED == { <<"error", "transfer denied">>, <<"instruction", "continue">> }
RESP_END_DENIED == { <<"error", "end call denied">>, <<"instruction", "continue">> }
RESP_TRANSFER_OK == { <<"status", "ok">>, <<"action", "transferring to sales team">> }
RESP_END_OK == { <<"status", "ok">>, <<"action", "ending call gracefully">> }

\* GeminiLiveSession.send_function_response: the tool_response sent
send_function_response(call_id, func_name, response) ==
    [id |-> call_id, name |-> func_name, response |-> response]

HasField(resp, key) == \E kv \in resp.response : kv[1] = key

\* ------------------------------------------------------------------------
\* State
\* ------------------------------------------------------------------------
VARIABLES
    session,        \* the TelephonySession record
    now,            \* clock, in Ticks since call_start_time
    client_ws,      \* client WebSocket: "open" or "closed"
    gemini_ws,      \* model-link WebSocket: "open" or "closed"
    reader_pc,      \* _gemini_reader: "recv", "resume", "inject", "done"
    reader_msg,     \* the message _gemini_reader is in the middle of
    sender_pc,      \* _audio_sender: "run", "done"
    handler_pc,     \* handle_client: "loop", "save", "done"
    hce_pc,         \* _handle_call_end task
    hce_wait,       \* its wait_time, in polls
    scheduled,      \* number of _handle_call_end tasks created
    issued,         \* terminal commands issued, in order: "transfer" / "hangup"
    closes,         \* client_ws.close() calls made by the terminal action
    finalized,      \* number of _save_call_data runs
    last_fc,        \* function call of the message the reader took in this step,
                    \* with the session as the reader found it
    fc_resps,       \* function responses sent for it in this step
    tc_after,       \* turnComplete messages handled since a function call was
                    \* accepted: 0, 1, or 2 for more than one
    ended_by        \* what set call_ending

\* what the terminal action's control-API call was seen to do
VARIABLES
    api_result,     \* outcome of _waybeo_api_command: "none" before the call
    fallbacks,      \* WebSocket-event fallbacks attempted
    delivered       \* the command reached the provider, by the API or the fallback

end_obs == << api_result, fallbacks, delivered >>

\* _audio_sender in detail: its clock, its locals and what it sent
VARIABLES
    clock,          \* time.monotonic(), in ticks
    next_send_time, \* the pacer's next_send_time; NoTime for None
    wake_at,        \* when the pacer's current asyncio.sleep ends
    chunk,          \* the chunk the pacer popped and is sending
    next_slot,      \* identity of the next sample the reader queues
    audio_messages, \* audio messages the reader has buffered
    cleared_upto,   \* last sample queued before the latest interruption
    stale_sent,     \* samples queued before the latest interruption and
                    \* delivered after it
    frames,         \* the last two media frames handed to the client socket
    aborted         \* the pacer woke from its paced sleep and sent nothing

pacer_vars ==
    << clock, next_send_time, wake_at, chunk, next_slot, audio_messages,
       cleared_upto, stale_sent, frames, aborted >>

NoTime == -1

\* the language monitor in detail: what the reader was given and what it sent
VARIABLES
    seen,           \* the message the reader took in this step, with the
                    \* session as the reader found it
    round_injected  \* corrective text turns sent since language_correction_pending
                    \* was last set

lang_obs == << seen, round_injected >>

\* handle_client in detail: how the first frame was answered and what the
\* finalize pass found
VARIABLES
    first_frame,    \* what the wait for the first client frame gave: "none"
                    \* while it is not over
    close_code,     \* code of the handler's own client_ws.close(); 0 for none
    save_log        \* one entry per _save_call_data call: the closed flag and
                    \* the model link as the call found them

td_obs == << first_frame, close_code, save_log >>

\* the transcript in detail
VARIABLES
    transcript,     \* session.conversation, entry by entry: << speaker, text >>
    received        \* the transcription events the model has sent, in the
                    \* order of their arrival

tr_obs == << transcript, received >>

\* the crossfade append on its own
VARIABLES
    buf_before,     \* session.output_buffer before the latest append
    last_chunk,     \* the decoded chunk of the latest append
    appends         \* appends made so far

xf_obs == << buf_before, last_chunk, appends >>

\* the setup handshake of the model link and the inbound stream after it
VARIABLES
    wire,           \* the messages the far end has sent, in order
    taken,          \* how many of them have been read off the socket
    observed,       \* the messages that messages() has yielded to the reader
    setup           \* how the wait for the setup acknowledgment ended:
                    \* "waiting" until it has

cn_obs == << wire, taken, observed, setup >>

\* the stop frame and what followed it
VARIABLES
    stopped,        \* a stop / end / close frame has ended the receive loop
    sched_at_stop   \* terminal actions scheduled when it did

st_obs == << stopped, sched_at_stop >>

\* the early connect task against the handler
VARIABLES
    connect_pc,        \* gemini_connect_task: "opening", "setup", "done", "failed", "cancelled"
    ws_assigned,       \* self._ws is not None
    model_sock,        \* the model WebSocket: "none", "open", "closed"
    hc_pc,             \* handle_client: "first", "await_connect", "loop", "save", "finally", "done"
    exit_path,         \* how handle_client left its try block
    cancel_requested,  \* gemini_connect_task.cancel() was called on the running task
    media_seen         \* media frames taken by the receive loop

lk_obs ==
    << connect_pc, ws_assigned, model_sock, hc_pc, exit_path, cancel_requested,
       media_seen >>

\* what the specifications of single concerns observe beyond the above
late_obs == << st_obs, lk_obs >>

\* the state that only the specifications of this part of the module follow
focus_obs == << td_obs, tr_obs, xf_obs, cn_obs, late_obs >>

vars ==
    << session, now, client_ws, gemini_ws, reader_pc, reader_msg, sender_pc,
       handler_pc, hce_pc, hce_wait, scheduled, issued, closes, finalized,
       last_fc, fc_resps, tc_after, ended_by, end_obs, pacer_vars, lang_obs,
       focus_obs >>

NoEvent == [type |-> "none", status |-> "none"]

\* the session as handle_client constructs it
NewSession ==
    [ closed |-> FALSE,
      conversation |-> 0,
      output_buffer |-> << >>,
      user_wants_transfer |-> "None",
      call_ending |-> FALSE,
      hangup_sent |-> FALSE,
      last_user_text |-> NoText,
      transfer_question_asked_at |-> FALSE,
      transfer_question_answered |-> FALSE,
      last_transfer_answer_text |-> NoText,
      current_turn_agent_text |-> NoText,
      current_turn_user_text |-> NoText,
      call_control_event |-> NoEvent,
      language_state |-> "hindi",
      language_correction_pending |-> FALSE ]

NoFc == [name |-> "none", id |-> "", s |-> NewSession]

NotSeen == [taken |-> FALSE, m |-> NoMsg, s |-> NewSession]

\* the state that only the focused specifications follow, at the start
NothingObserved ==
    /\ api_result = "none"
    /\ fallbacks = 0
    /\ delivered = FALSE
    /\ clock = 0
    /\ next_send_time = NoTime
    /\ wake_at = 0
    /\ chunk = << >>
    /\ next_slot = 1
    /\ audio_messages = 0
    /\ cleared_upto = 0
    /\ stale_sent = 0
    /\ frames = << >>
    /\ aborted = FALSE
    /\ seen = NotSeen
    /\ round_injected = 0
    /\ first_frame = "none"
    /\ close_code = 0
    /\ save_log = << >>
    /\ transcript = << >>
    /\ received = << >>
    /\ buf_before = << >>
    /\ last_chunk = << >>
    /\ appends = 0
    /\ wire = << >>
    /\ taken = 0
    /\ observed = << >>
    /\ setup = "waiting"
    /\ stopped = FALSE
    /\ sched_at_stop = 0
    /\ connect_pc = "opening"
    /\ ws_assigned = FALSE
    /\ model_sock = "none"
    /\ hc_pc = "first"
    /\ exit_path = "none"
    /\ cancel_requested = FALSE
    /\ media_seen = 0

\* a step of the whole-call specification leaves it alone
Elsewhere == UNCHANGED << end_obs, pacer_vars, lang_obs, focus_obs >>

\* time.time() - session.call_start_time, in seconds
Age == now * TimeUnit

Init ==
    /\ session = NewSession
    /\ now = 0
    /\ client_ws = "open"
    /\ gemini_ws = "open"
    /\ reader_pc = "recv"
    /\ reader_msg = NoMsg
    /\ sender_pc = "run"
    /\ handler_pc = "loop"
    /\ hce_pc = "idle"
    /\ hce_wait = 0
    /\ scheduled = 0
    /\ issued = << >>
    /\ closes = 0
    /\ finalized = 0
    /\ last_fc = NoFc
    /\ fc_resps = << >>
    /\ tc_after = 0
    /\ ended_by = "none"
    /\ NothingObserved

\* ------------------------------------------------------------------------
\* _gemini_reader: one message
\* ------------------------------------------------------------------------
\* a validation that forgets the caller's negative answer
TransferAllowedAnyAnswer(s) ==
    \/ _is_explicit_transfer_request(s.last_user_text)
    \/ s.transfer_question_asked_at /\ s.transfer_question_answered

\* a validation that lets every transfer_call through
TransferAllowedAlways(s) == TRUE

\* transfer_call validation
TransferAllowed(s) ==
    \/ _is_explicit_transfer_request(s.last_user_text)
    \/ /\ s.transfer_question_asked_at
       /\ s.transfer_question_answered
       /\ ~ _is_negative(s.last_transfer_answer_text)

\* a validation that lets every end_call through
EndAllowedAlways(s, call_duration) == TRUE

\* end_call validation
EndAllowed(s, call_duration) ==
    ~ (~ s.transfer_question_asked_at /\ call_duration < END_CALL_MIN_S)

\* a guard that lets a function call through whatever the call-control flags
FunctionCallAlways(s, m) == m.fc # "none"

\* the guard of the function-call block
FunctionCallHandled(s, m) ==
    m.fc # "none" /\ ~ s.hangup_sent /\ ~ s.call_ending

\* a function call during a language correction: the neutral response
Deflect(s, m) ==
    [s |-> s, next |-> "continue",
     resps |-> << send_function_response(m.id, m.fc, RESP_IGNORED) >>]

\* a function call during the setup grace period: the error response
RejectTooEarly(s, m) ==
    [s |-> s, next |-> "continue",
     resps |-> << send_function_response(m.id, m.fc, RESP_TOO_EARLY) >>]

\* validation of a function call, and its acceptance or rejection
ValidateCall(s, m, call_duration) ==
    IF m.fc = "transfer_call"
    THEN IF ~ TransferAllowed(s)
         THEN [s |-> s, next |-> "continue",
               resps |-> << send_function_response(m.id, m.fc, RESP_TRANSFER_DENIED) >>]
         ELSE [s |-> [s EXCEPT !.user_wants_transfer = "True", !.call_ending = TRUE],
               next |-> "await",
               resps |-> << send_function_response(m.id, m.fc, RESP_TRANSFER_OK) >>]
    ELSE IF ~ EndAllowed(s, call_duration)
         THEN [s |-> s, next |-> "continue",
               resps |-> << send_function_response(m.id, m.fc, RESP_END_DENIED) >>]
         ELSE [s |-> [s EXCEPT !.user_wants_transfer = "False", !.call_ending = TRUE],
               next |-> "await",
               resps |-> << send_function_response(m.id, m.fc, RESP_END_OK) >>]

\* a function-call block without the setup grace period
FunctionCallPhaseNoGrace(s, m, call_duration) ==
    IF ~ FunctionCallHandled(s, m)
    THEN [s |-> s, resps |-> << >>, next |-> "fallthrough"]
    ELSE IF s.language_correction_pending THEN Deflect(s, m)
    ELSE ValidateCall(s, m, call_duration)

\* a function-call block that tests the grace period before the pending correction
FunctionCallPhaseGraceFirst(s, m, call_duration) ==
    IF ~ FunctionCallHandled(s, m)
    THEN [s |-> s, resps |-> << >>, next |-> "fallthrough"]
    ELSE IF call_duration < SETUP_GRACE_S THEN RejectTooEarly(s, m)
    ELSE IF s.language_correction_pending THEN Deflect(s, m)
    ELSE ValidateCall(s, m, call_duration)

\* a function-call block that does not look at the pending correction
FunctionCallPhaseNoDeflect(s, m, call_duration) ==
    IF ~ FunctionCallHandled(s, m)
    THEN [s |-> s, resps |-> << >>, next |-> "fallthrough"]
    ELSE IF call_duration < SETUP_GRACE_S THEN RejectTooEarly(s, m)
    ELSE ValidateCall(s, m, call_duration)

\* The function-call block. next: "continue" (message done), "await" (accepted:
\* the rest of the message follows the response), "fallthrough" (block skipped)
FunctionCallPhase(s, m, call_duration) ==
    IF ~ FunctionCallHandled(s, m)
    THEN [s |-> s, resps |-> << >>, next |-> "fallthrough"]
    ELSE IF s.language_correction_pending THEN Deflect(s, m)
    ELSE IF call_duration < SETUP_GRACE_S THEN RejectTooEarly(s, m)
    ELSE ValidateCall(s, m, call_duration)

ResetTurnTexts(s) ==
    [s EXCEPT !.current_turn_agent_text = NoText, !.current_turn_user_text = NoText]

\* a guard of the turnComplete block that does not look at hangup_sent
TurnCompleteAlways(s, m) == m.turnComplete

\* the guard of the turnComplete block
TurnCompleteHandled(s, m) == m.turnComplete /\ ~ s.hangup_sent

\* transfer-question detection on the accumulated agent text
DetectTransferQuestion(s) ==
    IF s.current_turn_agent_text # NoText
       /\ _is_transfer_question(s.current_turn_agent_text)
    THEN [s EXCEPT !.transfer_question_asked_at = TRUE,
                   !.transfer_question_answered = FALSE,
                   !.last_transfer_answer_text = NoText]
    ELSE s

\* language enforcement applies to this turn
EnforceLanguage(s) ==
    s.current_turn_agent_text # NoText /\ ~ s.call_ending /\ ~ s.hangup_sent

\* language_state update on a category B caller utterance
UpdateLanguageState(s) ==
    LET detected == _detect_language(s.current_turn_user_text)
    IN  IF EnforceLanguage(s) /\ detected[2] = "B"
           /\ detected[1] \in {"hindi", "english"}
        THEN [s EXCEPT !.language_state = detected[1]]
        ELSE s

LanguageMismatch(s) ==
    /\ EnforceLanguage(s)
    /\ _detect_agent_language(s.current_turn_agent_text) # "unknown"
    /\ s.language_state # _detect_agent_language(s.current_turn_agent_text)

\* a call end that leaves hangup_sent to the task it creates
CallEndDecisionFlagLate(s, turn_agent_text, call_age) ==
    IF s.call_ending
    THEN [s |-> s, sched |-> TRUE, via |-> "call_ending"]
    ELSE IF s.transfer_question_asked_at /\ s.transfer_question_answered
    THEN [s |-> [s EXCEPT !.user_wants_transfer = "False", !.call_ending = TRUE],
          sched |-> TRUE, via |-> "net_a"]
    ELSE IF call_age > GOODBYE_MIN_AGE_S /\ _is_goodbye_message(turn_agent_text)
    THEN [s |-> [s EXCEPT !.user_wants_transfer = "False", !.call_ending = TRUE],
          sched |-> TRUE, via |-> "net_b"]
    ELSE [s |-> s, sched |-> FALSE, via |-> "none"]

\* call end / safety nets at a turn boundary; via: what fired
CallEndDecision(s, turn_agent_text, call_age) ==
    IF s.call_ending
    THEN [s |-> [s EXCEPT !.hangup_sent = TRUE], sched |-> TRUE, via |-> "call_ending"]
    ELSE IF s.transfer_question_asked_at /\ s.transfer_question_answered
    THEN [s |-> [s EXCEPT !.user_wants_transfer = "False", !.call_ending = TRUE,
                          !.hangup_sent = TRUE],
          sched |-> TRUE, via |-> "net_a"]
    ELSE IF call_age > GOODBYE_MIN_AGE_S /\ _is_goodbye_message(turn_agent_text)
    THEN [s |-> [s EXCEPT !.user_wants_transfer = "False", !.call_ending = TRUE,
                          !.hangup_sent = TRUE],
          sched |-> TRUE, via |-> "net_b"]
    ELSE [s |-> s, sched |-> FALSE, via |-> "none"]

\* a turnComplete block that does not look at the pending correction
TurnCompletePhaseNoPending(s, m, call_age) ==
    IF ~ TurnCompleteHandled(s, m)
    THEN [s |-> s, sched |-> FALSE, via |-> "none", next |-> "fallthrough"]
    ELSE LET s2 == UpdateLanguageState(DetectTransferQuestion(s))
         IN  IF LanguageMismatch(s2)
             THEN [s |-> [s2 EXCEPT !.language_correction_pending = TRUE],
                   sched |-> FALSE, via |-> "none", next |-> "inject"]
             ELSE LET d == CallEndDecision(ResetTurnTexts(s2),
                                           s2.current_turn_agent_text, call_age)
                  IN  [s |-> d.s, sched |-> d.sched, via |-> d.via,
                       next |-> "fallthrough"]

\* The turnComplete block. next: "continue", "inject" (the correction is being
\* sent), "fallthrough"
TurnCompletePhase(s, m, call_age) ==
    IF ~ TurnCompleteHandled(s, m)
    THEN [s |-> s, sched |-> FALSE, via |-> "none", next |-> "fallthrough"]
    ELSE IF s.language_correction_pending
    THEN [s |-> ResetTurnTexts([s EXCEPT !.language_correction_pending = FALSE]),
          sched |-> FALSE, via |-> "none", next |-> "continue"]
    ELSE LET s2 == UpdateLanguageState(DetectTransferQuestion(s))
         IN  IF LanguageMismatch(s2)
             THEN [s |-> [s2 EXCEPT !.language_correction_pending = TRUE],
                   sched |-> FALSE, via |-> "none", next |-> "inject"]
             ELSE LET d == CallEndDecision(ResetTurnTexts(s2),
                                           s2.current_turn_agent_text, call_age)
                  IN  [s |-> d.s, sched |-> d.sched, via |-> d.via,
                       next |-> "fallthrough"]

\* transcript capture
TranscriptionPhase(s, m) ==
    IF m.speaker = "user"
    THEN LET s1 == [s EXCEPT !.conversation = @ + 1,
                             !.last_user_text = m.text,
                             !.current_turn_user_text = @ \o m.text]
         IN  IF s1.transfer_question_asked_at /\ ~ s1.transfer_question_answered
             THEN [s1 EXCEPT !.transfer_question_answered = TRUE,
                             !.last_transfer_answer_text = m.text]
             ELSE s1
    ELSE IF m.speaker = "agent"
    THEN [s EXCEPT !.conversation = @ + 1,
                   !.current_turn_agent_text = @ \o m.text]
    ELSE s

\* an audio path that skips nothing
SkipNoAudio(s) == FALSE

\* the audio of an acknowledgment of a language correction is skipped
SkipAckAudio(s) ==
    /\ s.language_correction_pending
    /\ ContainsAny(Lower(s.current_turn_agent_text), ACK_PATTERNS)

\* audio buffering
AudioPhase(s, m) ==
    IF m.audio = << >> \/ SkipAckAudio(s)
    THEN s
    ELSE [s EXCEPT !.output_buffer = CrossfadeAppend(@, m.audio)]

\* a step that takes no message leaves no function call to observe
NotTheReader == last_fc' = NoFc /\ fc_resps' = << >>

\* GeminiLiveSession.inject_language_context: the corrective text turn is sent
\* iff the link is connected; a send on a closed link raises
inject_language_context(link) == link = "open"

\* asyncio.create_task(_handle_call_end(session, cfg))
CreateCallEndTask(sched) ==
    /\ scheduled' = IF sched THEN scheduled + 1 ELSE scheduled
    /\ hce_pc' = IF sched /\ hce_pc = "idle" THEN "drain" ELSE hce_pc
    /\ UNCHANGED hce_wait

\* from the turnComplete block to the end of the loop body
RestOfMessage(s, m, eb) ==
    LET t == TurnCompletePhase(s, m, Age)
    IN  /\ tc_after' = IF m.turnComplete /\ eb \in FunctionNames /\ tc_after < 2
                       THEN tc_after + 1 ELSE tc_after
        /\ ended_by' = IF t.via \in {"net_a", "net_b"} THEN t.via ELSE eb
        /\ CreateCallEndTask(t.sched)
        /\ reader_msg' = NoMsg
        /\ reader_pc' = IF t.next = "inject" THEN "inject" ELSE "recv"
        /\ session' = IF t.next = "fallthrough"
                      THEN AudioPhase(TranscriptionPhase(t.s, m), m)
                      ELSE t.s

\* the reader takes message m and runs to its first suspension point
ReaderRecv(m) ==
    /\ reader_pc = "recv"
    /\ gemini_ws = "open"
    /\ m.speaker # "none" => session.conversation < MaxTranscripts
    /\ m.audio # << >> =>
           Len(session.output_buffer) + Len(m.audio) <= MaxBufferChunks * ChunkSamples
    /\ last_fc' = IF m.fc = "none" THEN NoFc
                   ELSE [name |-> m.fc, id |-> m.id, s |-> session]
    /\ IF m.interrupted
       THEN /\ session' = [session EXCEPT !.output_buffer = << >>]
            /\ fc_resps' = << >>
            /\ UNCHANGED << reader_pc, reader_msg, hce_pc, hce_wait, scheduled,
                            tc_after, ended_by >>
       ELSE LET f == FunctionCallPhase(session, m, Age)
            IN  /\ fc_resps' = f.resps
                /\ CASE f.next = "continue" ->
                          /\ session' = f.s
                          /\ UNCHANGED << reader_pc, reader_msg, hce_pc, hce_wait,
                                          scheduled, tc_after, ended_by >>
                     [] f.next = "await" ->
                          /\ session' = f.s
                          /\ reader_pc' = "resume"
                          /\ reader_msg' = m
                          /\ ended_by' = m.fc
                          /\ tc_after' = 0
                          /\ UNCHANGED << hce_pc, hce_wait, scheduled >>
                     [] OTHER -> RestOfMessage(f.s, m, ended_by)
    /\ Elsewhere
    /\ UNCHANGED << now, client_ws, gemini_ws, sender_pc, handler_pc, issued, closes, finalized >>

\* the function response of an accepted call has been sent: rest of the message
ReaderResume ==
    /\ reader_pc = "resume"
    /\ RestOfMessage(session, reader_msg, ended_by)
    /\ NotTheReader
    /\ Elsewhere
    /\ UNCHANGED << now, client_ws, gemini_ws, sender_pc, handler_pc, issued, closes, finalized >>

\* the language correction was sent, or the send raised
ReaderInjectDone ==
    /\ reader_pc = "inject"
    /\ session' = ResetTurnTexts(
           IF inject_language_context(gemini_ws)
           THEN session
           ELSE [session EXCEPT !.language_correction_pending = FALSE])
    /\ reader_pc' = "recv"
    /\ NotTheReader
    /\ Elsewhere
    /\ UNCHANGED << now, client_ws, gemini_ws, reader_msg, sender_pc, handler_pc,
                    hce_pc, hce_wait, scheduled, issued, closes, finalized,
                    tc_after, ended_by >>

\* GeminiLiveSession.messages() ends when the link is closed
ReaderExit ==
    /\ reader_pc = "recv"
    /\ gemini_ws = "closed"
    /\ reader_pc' = "done"
    /\ NotTheReader
    /\ Elsewhere
    /\ UNCHANGED << session, now, client_ws, gemini_ws, reader_msg, sender_pc,
                    handler_pc, hce_pc, hce_wait, scheduled, issued, closes,
                    finalized, tc_after, ended_by >>

\* ------------------------------------------------------------------------
\* _audio_sender
\* ------------------------------------------------------------------------
SenderSend ==
    /\ sender_pc = "run"
    /\ ~ session.closed
    /\ Len(session.output_buffer) >= ChunkSamples
    /\ session' = [session EXCEPT !.output_buffer =
                       SubSeq(@, ChunkSamples + 1, Len(@))]
    /\ NotTheReader
    /\ Elsewhere
    /\ UNCHANGED << now, client_ws, gemini_ws, reader_pc, reader_msg, sender_pc,
                    handler_pc, hce_pc, hce_wait, scheduled, issued, closes,
                    finalized, tc_after, ended_by >>

SenderExit ==
    /\ sender_pc = "run"
    /\ session.closed
    /\ sender_pc' = "done"
    /\ NotTheReader
    /\ Elsewhere
    /\ UNCHANGED << session, now, client_ws, gemini_ws, reader_pc, reader_msg,
                    handler_pc, hce_pc, hce_wait, scheduled, issued, closes,
                    finalized, tc_after, ended_by >>

\* ------------------------------------------------------------------------
\* _handle_call_end, send_transfer_event, send_hangup_event
\* ------------------------------------------------------------------------
\* outcomes of _waybeo_api_command: HTTP status < 300, a failure (HTTP error or
\* exception), or no WAYBEO_AUTH_TOKEN configured (nothing is posted)
ApiOutcomes == { "ok", "failed", "no_token" }

\* a poll that forgets to advance wait_time
SameWait(wait_time) == wait_time

\* wait_time += 0.1, counted in polls
NextWait(wait_time) == wait_time + 1

\* the loop condition of the drain wait: queue not empty and wait_time < 5.0
DrainWaiting(output_buffer, wait_time) ==
    Len(output_buffer) > 0 /\ wait_time < DrainPolls

\* one 100 ms poll of the drain wait
HceDrainPoll ==
    /\ hce_pc = "drain"
    /\ DrainWaiting(session.output_buffer, hce_wait)
    /\ hce_wait' = NextWait(hce_wait)
    /\ NotTheReader
    /\ Elsewhere
    /\ UNCHANGED << session, now, client_ws, gemini_ws, reader_pc, reader_msg,
                    sender_pc, handler_pc, hce_pc, scheduled, issued, closes,
                    finalized, tc_after, ended_by >>

\* the drain wait ends: buffer empty or timeout; the settle delay follows
HceDrainDone ==
    /\ hce_pc = "drain"
    /\ ~ DrainWaiting(session.output_buffer, hce_wait)
    /\ hce_pc' = "settle"
    /\ NotTheReader
    /\ Elsewhere
    /\ UNCHANGED << session, now, client_ws, gemini_ws, reader_pc, reader_msg,
                    sender_pc, handler_pc, hce_wait, scheduled, issued, closes,
                    finalized, tc_after, ended_by >>

\* a branch that transfers whenever user_wants_transfer was set at all
TerminalCommandUnlessNone(s) ==
    IF s.user_wants_transfer # "None" THEN "transfer" ELSE "hangup"

\* the branch of the terminal action: transfer iff user_wants_transfer is truthy
TerminalCommand(s) == IF s.user_wants_transfer = "True" THEN "transfer" ELSE "hangup"

\* after the settle delay the command is chosen and its API call started
HceIssue ==
    /\ hce_pc = "settle"
    /\ issued' = Append(issued, TerminalCommand(session))
    /\ hce_pc' = IF TerminalCommand(session) = "transfer"
                 THEN "transfer_api" ELSE "hangup_api"
    /\ NotTheReader
    /\ Elsewhere
    /\ UNCHANGED << session, now, client_ws, gemini_ws, reader_pc, reader_msg,
                    sender_pc, handler_pc, hce_wait, scheduled, closes,
                    finalized, tc_after, ended_by >>

\* send_transfer_event returns: True iff the API call or the WebSocket
\* fallback (which needs a transfer number and an open socket) went through
TransferSent(api, has_number, ws) == api = "ok" \/ (has_number /\ ws = "open")

\* what the transfer branch does to the client socket
TransferClose(ws) == ws

\* the WebSocket fallback of the transfer is tried only with a transfer number
TransferFallback(api, has_number) == api # "ok" /\ has_number

\* send_transfer_event, from the API call to its return
send_transfer_event(api, has_number) ==
    /\ hce_pc = "transfer_api"
    /\ session' = [session EXCEPT !.call_control_event =
           [type |-> "transfer",
            status |-> IF TransferSent(api, has_number, client_ws)
                       THEN "sent" ELSE "failed"]]
    /\ client_ws' = TransferClose(client_ws)
    /\ hce_pc' = "done"
    /\ NotTheReader
    /\ UNCHANGED << now, gemini_ws, reader_pc, reader_msg, sender_pc, handler_pc,
                    hce_wait, scheduled, issued, closes, finalized, tc_after, ended_by >>

HceTransferDone(api, has_number) ==
    /\ send_transfer_event(api, has_number)
    /\ Elsewhere

\* the WebSocket fallback of the hangup is tried whenever the API call failed
HangupFallback(api) == api # "ok"

\* send_hangup_event up to its 1 s sleep
send_hangup_event(api) ==
    /\ hce_pc = "hangup_api"
    /\ hce_pc' = "hangup_sleep"
    /\ NotTheReader
    /\ UNCHANGED << session, now, client_ws, gemini_ws, reader_pc, reader_msg,
                    sender_pc, handler_pc, hce_wait, scheduled, issued, closes,
                    finalized, tc_after, ended_by >>

HceHangupDone(api) ==
    /\ send_hangup_event(api)
    /\ Elsewhere

\* a branch that leaves the client socket as it is
LeaveOpen(ws) == ws

\* what the hangup branch does to the client socket after its sleep
HangupClose(ws) == "closed"

\* send_hangup_event closes the client socket if it is open, and returns
HceHangupClose ==
    /\ hce_pc = "hangup_sleep"
    /\ client_ws' = HangupClose(client_ws)
    /\ closes' = IF client_ws = "open" /\ HangupClose(client_ws) = "closed"
                 THEN closes + 1 ELSE closes
    /\ session' = [session EXCEPT !.call_control_event =
           [type |-> "hangup", status |-> "sent"]]
    /\ hce_pc' = "done"
    /\ NotTheReader
    /\ Elsewhere
    /\ UNCHANGED << now, gemini_ws, reader_pc, reader_msg, sender_pc, handler_pc,
                    hce_wait, scheduled, issued, finalized, tc_after, ended_by >>

\* ------------------------------------------------------------------------
\* handle_client: receive loop and teardown
\* ------------------------------------------------------------------------
\* the normal exit of the receive loop: closed is set and both tasks are
\* cancelled before the handler suspends again
LoopEnded(s) ==
    /\ session' = [s EXCEPT !.closed = TRUE]
    /\ reader_pc' = "done"
    /\ reader_msg' = NoMsg
    /\ sender_pc' = "done"
    /\ handler_pc' = "save"

\* a stop / end / close frame
ClientStop ==
    /\ handler_pc = "loop"
    /\ client_ws = "open"
    /\ LoopEnded([session EXCEPT !.hangup_sent = TRUE])
    /\ NotTheReader
    /\ Elsewhere
    /\ UNCHANGED << now, client_ws, gemini_ws, hce_pc, hce_wait, scheduled, issued,
                    closes, finalized, tc_after,
                    ended_by >>

\* the client connection was closed normally (by the far end, or by the
\* terminal action): the iteration ends without an exception
ClientEof ==
    /\ handler_pc = "loop"
    /\ client_ws' = "closed"
    /\ LoopEnded(session)
    /\ NotTheReader
    /\ Elsewhere
    /\ UNCHANGED << now, gemini_ws, hce_pc, hce_wait, scheduled, issued, closes, finalized, tc_after, ended_by >>

\* ConnectionClosed (lost) or another exception in the loop: no task is cancelled
ClientError(lost) ==
    /\ handler_pc = "loop"
    /\ client_ws' = IF lost THEN "closed" ELSE client_ws
    /\ handler_pc' = "save"
    /\ NotTheReader
    /\ Elsewhere
    /\ UNCHANGED << session, now, gemini_ws, reader_pc, reader_msg, sender_pc,
                    hce_pc, hce_wait, scheduled, issued, closes, finalized,
                    tc_after, ended_by >>

\* _save_call_data runs; then finally: closed is set and the model link closed;
\* the server closes the client connection when the handler returns
HandlerSave ==
    /\ handler_pc = "save"
    /\ finalized' = finalized + 1
    /\ session' = [session EXCEPT !.closed = TRUE]
    /\ gemini_ws' = "closed"
    /\ client_ws' = "closed"
    /\ handler_pc' = "done"
    /\ NotTheReader
    /\ Elsewhere
    /\ UNCHANGED << now, reader_pc, reader_msg, sender_pc, hce_pc, hce_wait,
                    scheduled, issued, closes, tc_after, ended_by >>

\* ------------------------------------------------------------------------
\* Environment
\* ------------------------------------------------------------------------
Tick ==
    /\ now < MaxTicks
    /\ now' = now + 1
    /\ NotTheReader
    /\ Elsewhere
    /\ UNCHANGED << session, client_ws, gemini_ws, reader_pc, reader_msg, sender_pc,
                    handler_pc, hce_pc, hce_wait, scheduled, issued, closes,
                    finalized, tc_after, ended_by >>

\* the far end closes the model link
ModelLinkLost ==
    /\ gemini_ws = "open"
    /\ gemini_ws' = "closed"
    /\ NotTheReader
    /\ Elsewhere
    /\ UNCHANGED << session, now, client_ws, reader_pc, reader_msg, sender_pc,
                    handler_pc, hce_pc, hce_wait, scheduled, issued, closes,
                    finalized, tc_after, ended_by >>

Next ==
    \/ \E m \in Messages : ReaderRecv(m)
    \/ ReaderResume
    \/ ReaderInjectDone
    \/ ReaderExit
    \/ SenderSend
    \/ SenderExit
    \/ HceDrainPoll
    \/ HceDrainDone
    \/ HceIssue
    \/ \E api \in ApiOutcomes, has_number \in BOOLEAN : HceTransferDone(api, has_number)
    \/ \E api \in ApiOutcomes : HceHangupDone(api)
    \/ HceHangupClose
    \/ ClientStop
    \/ ClientEof
    \/ \E lost \in BOOLEAN : ClientError(lost)
    \/ HandlerSave
    \/ Tick
    \/ ModelLinkLost

Spec == Init /\ [][Next]_vars

\* ------------------------------------------------------------------------
\* The terminal action on its own: from the creation of the _handle_call_end
\* task, with the outcome of the control-API call and the fallbacks observed
\* ------------------------------------------------------------------------
\* model audio still arriving while the terminal action waits
AudioMessages == { m \in Messages : m.audio # << >> /\ ~ m.turnComplete }

\* the session as the reader leaves it when it creates the task
InitEnd ==
    /\ \E uwt \in {"True", "False"}, buf \in {<< >>} \cup AudioChunks :
           /\ session = [NewSession EXCEPT !.user_wants_transfer = uwt,
                                           !.call_ending = TRUE,
                                           !.hangup_sent = TRUE,
                                           !.output_buffer = buf]
           /\ ended_by = IF uwt = "True" THEN "transfer_call" ELSE "end_call"
    /\ now = 0
    /\ client_ws = "open"
    /\ gemini_ws = "open"
    /\ reader_pc = "recv"
    /\ reader_msg = NoMsg
    /\ sender_pc = "run"
    /\ handler_pc = "loop"
    /\ hce_pc = "drain"
    /\ hce_wait = 0
    /\ scheduled = 1
    /\ issued = << >>
    /\ closes = 0
    /\ finalized = 0
    /\ last_fc = NoFc
    /\ fc_resps = << >>
    /\ tc_after = 0
    /\ NothingObserved

\* the provider got the command: the API call went through, or the fallback
\* event was tried and the client socket took it
Delivered(api, tried, ws) == api = "ok" \/ (tried /\ ws = "open")

EndTransferDone(api, has_number) ==
    /\ send_transfer_event(api, has_number)
    /\ UNCHANGED << pacer_vars, lang_obs, focus_obs >>
    /\ api_result' = api
    /\ fallbacks' = IF TransferFallback(api, has_number)
                    THEN fallbacks + 1 ELSE fallbacks
    /\ delivered' = Delivered(api, TransferFallback(api, has_number), client_ws)

EndHangupDone(api) ==
    /\ send_hangup_event(api)
    /\ UNCHANGED << pacer_vars, lang_obs, focus_obs >>
    /\ api_result' = api
    /\ fallbacks' = IF HangupFallback(api) THEN fallbacks + 1 ELSE fallbacks
    /\ delivered' = Delivered(api, HangupFallback(api), client_ws)

NextEnd ==
    \/ \E m \in AudioMessages : ReaderRecv(m)
    \/ SenderSend
    \/ SenderExit
    \/ HceDrainPoll
    \/ HceDrainDone
    \/ HceIssue
    \/ \E api \in ApiOutcomes, has_number \in BOOLEAN : EndTransferDone(api, has_number)
    \/ \E api \in ApiOutcomes : EndHangupDone(api)
    \/ HceHangupClose
    \/ ClientEof
    \/ \E lost \in BOOLEAN : ClientError(lost)
    \/ HandlerSave

\* the next step of the task while it sleeps: a poll, the settle delay, the issue
HceSleepOver == HceDrainPoll \/ HceDrainDone \/ HceIssue

\* asyncio resumes a task whose sleep has elapsed: the task's next step is not
\* postponed forever
SpecEnd ==
    /\ InitEnd
    /\ [][NextEnd]_vars
    /\ WF_vars(HceSleepOver)

\* ------------------------------------------------------------------------
\* The output pacer in detail: _audio_sender against the reader's appends and
\* interruption clears, with time. sender_pc is "loop" (top of the while),
\* "sleep" (paced sleep), "send" (client_ws.send), "poll" (5 ms sleep), "done".
\* A queued sample is named by the slot the reader queued it in.
\* ------------------------------------------------------------------------
\* chunk_duration and the poll sleep, in ticks
ChunkTicks == 2
PollTicks == 1
\* the run is followed for MaxClock ticks and MaxAudioMessages audio messages
MaxClock == 4
MaxAudioMessages == 2

\* lengths of the decoded audio of a message: one chunk, or long enough to
\* be crossfaded into the queue
AudioLengths == { ChunkSamples, XFADE + 1 }

\* the slots of a message of n samples
Slots(first, n) == [i \in 1..n |-> first + i - 1]

\* the queue after the reader buffered samples_8k: the crossfade blends the
\* first XFADE samples into the slots at the tail and queues the rest
QueueSamples(output_buffer, samples_8k) ==
    IF output_buffer # << >> /\ Len(samples_8k) > XFADE
    THEN output_buffer \o SubSeq(samples_8k, XFADE + 1, Len(samples_8k))
    ELSE output_buffer \o samples_8k

\* an interruption that leaves the queue as it is
KeepQueue(output_buffer) == output_buffer

\* session.output_buffer.clear()
ClearQueue(output_buffer) == << >>

\* a pop that leaves the chunk in the queue
PopNothing(output_buffer) == output_buffer

\* session.output_buffer = session.output_buffer[chunk_samples:]
PopChunk(output_buffer) == SubSeq(output_buffer, ChunkSamples + 1, Len(output_buffer))

\* a schedule that does not pace
ScheduleAtOnce(nst, t) == t

\* next_send_time after a chunk was sent, with t = time.monotonic()
Schedule(nst, t) ==
    IF nst = NoTime THEN t + ChunkTicks
    ELSE IF nst + ChunkTicks < t - ChunkTicks THEN t + ChunkTicks
    ELSE nst + ChunkTicks

\* the last two of the frames
LastTwo(fs) == IF Len(fs) > 2 THEN SubSeq(fs, Len(fs) - 1, Len(fs)) ELSE fs

InitPacer ==
    /\ session = NewSession
    /\ now = 0
    /\ client_ws = "open"
    /\ gemini_ws = "open"
    /\ reader_pc = "recv"
    /\ reader_msg = NoMsg
    /\ sender_pc = "loop"
    /\ handler_pc = "loop"
    /\ hce_pc = "idle"
    /\ hce_wait = 0
    /\ scheduled = 0
    /\ issued = << >>
    /\ closes = 0
    /\ finalized = 0
    /\ last_fc = NoFc
    /\ fc_resps = << >>
    /\ tc_after = 0
    /\ ended_by = "none"
    /\ NothingObserved

\* what a step of the pacer specification leaves alone
PacerFrame ==
    UNCHANGED << now, gemini_ws, reader_pc, reader_msg, handler_pc, hce_pc,
                 hce_wait, scheduled, issued, closes, finalized, last_fc,
                 fc_resps, tc_after, ended_by, end_obs, lang_obs, focus_obs >>

\* the reader buffers the audio of a message of n samples
PacerAppend(n) ==
    /\ reader_pc = "recv"
    /\ gemini_ws = "open"
    /\ audio_messages < MaxAudioMessages
    /\ session' = [session EXCEPT !.output_buffer =
                       QueueSamples(@, Slots(next_slot, n))]
    /\ next_slot' = next_slot + n
    /\ audio_messages' = audio_messages + 1
    /\ PacerFrame
    /\ UNCHANGED << client_ws, sender_pc, clock, next_send_time, wake_at, chunk,
                    cleared_upto, stale_sent, frames, aborted >>

\* the reader handles an interruption
PacerInterrupt ==
    /\ reader_pc = "recv"
    /\ gemini_ws = "open"
    /\ next_slot > 1
    /\ cleared_upto < next_slot - 1
    /\ session' = [session EXCEPT !.output_buffer = ClearQueue(@)]
    /\ cleared_upto' = next_slot - 1
    /\ stale_sent' = 0
    /\ PacerFrame
    /\ UNCHANGED << client_ws, sender_pc, clock, next_send_time, wake_at, chunk,
                    next_slot, audio_messages, frames, aborted >>

\* pop one chunk from the front and hand it to the client socket if it is open
PopAndSend ==
    /\ chunk' = SubSeq(session.output_buffer, 1, ChunkSamples)
    /\ session' = [session EXCEPT !.output_buffer = PopChunk(@)]
    /\ IF client_ws = "open"
       THEN /\ sender_pc' = "send"
            /\ frames' = LastTwo(Append(frames,
                   [at |-> clock, due |-> next_send_time,
                    samples |-> SubSeq(session.output_buffer, 1, ChunkSamples)]))
            /\ UNCHANGED next_send_time
       ELSE /\ sender_pc' = "loop"
            /\ next_send_time' = Schedule(next_send_time, clock)
            /\ UNCHANGED frames

\* one pass of the while loop up to its first await
PacerLoop ==
    /\ sender_pc = "loop"
    /\ IF session.closed
       THEN /\ sender_pc' = "done"
            /\ UNCHANGED << session, next_send_time, wake_at, chunk, frames >>
       ELSE IF Len(session.output_buffer) >= ChunkSamples
       THEN IF next_send_time # NoTime /\ next_send_time - clock > 0
            THEN /\ sender_pc' = "sleep"
                 /\ wake_at' = next_send_time
                 /\ UNCHANGED << session, next_send_time, chunk, frames >>
            ELSE /\ PopAndSend
                 /\ UNCHANGED wake_at
       ELSE /\ next_send_time' = NoTime
            /\ sender_pc' = "poll"
            /\ wake_at' = clock + PollTicks
            /\ UNCHANGED << session, chunk, frames >>
    /\ PacerFrame
    /\ UNCHANGED << client_ws, clock, next_slot, audio_messages, cleared_upto,
                    stale_sent, aborted >>

\* the paced sleep is over: the queue is checked again
PacerWake ==
    /\ sender_pc = "sleep"
    /\ clock >= wake_at
    /\ IF Len(session.output_buffer) < ChunkSamples
       THEN /\ next_send_time' = NoTime
            /\ sender_pc' = "loop"
            /\ aborted' = TRUE
            /\ UNCHANGED << session, chunk, frames >>
       ELSE /\ PopAndSend
            /\ UNCHANGED aborted
    /\ PacerFrame
    /\ UNCHANGED << client_ws, clock, wake_at, next_slot, audio_messages,
                    cleared_upto, stale_sent >>

\* client_ws.send returned, or raised on a closed connection, which ends the task
PacerSent ==
    /\ sender_pc = "send"
    /\ IF client_ws = "open"
       THEN /\ sender_pc' = "loop"
            /\ next_send_time' = Schedule(next_send_time, clock)
            /\ stale_sent' = stale_sent
                   + Cardinality({ i \in 1..Len(chunk) : chunk[i] <= cleared_upto })
       ELSE /\ sender_pc' = "done"
            /\ UNCHANGED << next_send_time, stale_sent >>
    /\ chunk' = << >>
    /\ PacerFrame
    /\ UNCHANGED << session, client_ws, clock, wake_at, next_slot, audio_messages,
                    cleared_upto, frames, aborted >>

\* the 5 ms poll sleep is over
PacerPolled ==
    /\ sender_pc = "poll"
    /\ clock >= wake_at
    /\ sender_pc' = "loop"
    /\ PacerFrame
    /\ UNCHANGED << session, client_ws, clock, next_send_time, wake_at, chunk,
                    next_slot, audio_messages, cleared_upto, stale_sent, frames,
                    aborted >>

PacerTick ==
    /\ clock < MaxClock
    /\ clock' = clock + 1
    /\ PacerFrame
    /\ UNCHANGED << session, client_ws, sender_pc, next_send_time, wake_at, chunk,
                    next_slot, audio_messages, cleared_upto, stale_sent, frames,
                    aborted >>

NextPacer ==
    \/ \E n \in AudioLengths : PacerAppend(n)
    \/ PacerInterrupt
    \/ PacerLoop
    \/ PacerWake
    \/ PacerSent
    \/ PacerPolled
    \/ PacerTick
    \/ ClientEof
    \/ \E lost \in BOOLEAN : ClientError(lost)
    \/ HandlerSave

SpecPacer == InitPacer /\ [][NextPacer]_vars

\* ------------------------------------------------------------------------
\* The language monitor in detail: the reader on transcriptions, audio and
\* turn boundaries of a call in progress, with the utterances it classifies
\* ------------------------------------------------------------------------
\* transcription entries followed per run
MaxLangTranscripts == 3

\* caller utterances: a sentence in English and one in Hindi, and answers to
\* data-collection prompts of four or more words
LangUserFragments ==
    { <<"please", "tell", "me", "about", "the", "car">>,
      <<"mujhe", "gaadi", "ke", "baare", "mein", "batao">>,
      <<"yes", "please", "tell", "me", "more">>,
      <<"my", "name", "is", "rohit", "sharma">>,
      <<"day", "after", "tomorrow", "works", "fine">>,
      <<"42", "mg", "road", "koramangala", "bangalore">>,
      <<"my", "number", "is", "9876543210", "please">>,
      <<"please", "call", "back", "on", "98765">>,
      <<"send", "it", "to", "rohit@gmail.com", "please">>,
      <<"new", "car">>,
      <<"dev_mujhe", "dev_nahin">> }

\* agent utterances: English, Hindi, and an acknowledgment of a correction
LangAgentFragments ==
    { <<"which", "car", "do", "you", "like">>,
      <<"aapka", "swagat", "hai">>,
      <<"Acknowledged.", "the", "customer", "is", "speaking", "hindi">> }

LangMessages ==
    { [NoMsg EXCEPT !.turnComplete = TRUE] }
    \cup { [NoMsg EXCEPT !.turnComplete = tc, !.speaker = "user", !.text = u] :
             tc \in BOOLEAN, u \in LangUserFragments }
    \cup { [NoMsg EXCEPT !.turnComplete = tc, !.speaker = "agent", !.text = a] :
             tc \in BOOLEAN, a \in LangAgentFragments }
    \cup { [NoMsg EXCEPT !.speaker = "agent", !.text = a, !.audio = c] :
             a \in LangAgentFragments, c \in AudioChunks }
    \cup { [NoMsg EXCEPT !.audio = c] : c \in AudioChunks }

InitLang ==
    /\ session = NewSession
    /\ now = 0
    /\ client_ws = "open"
    /\ gemini_ws = "open"
    /\ reader_pc = "recv"
    /\ reader_msg = NoMsg
    /\ sender_pc = "run"
    /\ handler_pc = "loop"
    /\ hce_pc = "idle"
    /\ hce_wait = 0
    /\ scheduled = 0
    /\ issued = << >>
    /\ closes = 0
    /\ finalized = 0
    /\ last_fc = NoFc
    /\ fc_resps = << >>
    /\ tc_after = 0
    /\ ended_by = "none"
    /\ NothingObserved

\* what a step of the language specification leaves alone
LangFrame ==
    UNCHANGED << now, client_ws, sender_pc, handler_pc, issued, closes,
                 finalized, end_obs, pacer_vars, focus_obs >>

\* the reader takes message m, which holds no function call and no
\* interruption, and runs to its first suspension point
LangRecv(m) ==
    /\ reader_pc = "recv"
    /\ gemini_ws = "open"
    /\ m.speaker # "none" => session.conversation < MaxLangTranscripts
    /\ m.audio # << >> =>
           Len(session.output_buffer) + Len(m.audio) <= MaxBufferChunks * ChunkSamples
    /\ RestOfMessage(session, m, ended_by)
    /\ seen' = [taken |-> TRUE, m |-> m, s |-> session]
    /\ round_injected' =
           IF TurnCompletePhase(session, m, Age).next = "inject"
              /\ ~ session.language_correction_pending
           THEN 0 ELSE round_injected
    /\ last_fc' = NoFc
    /\ fc_resps' = << >>
    /\ LangFrame
    /\ UNCHANGED gemini_ws

\* the language correction was sent, or the send raised
LangInjectDone ==
    /\ reader_pc = "inject"
    /\ session' = ResetTurnTexts(
           IF inject_language_context(gemini_ws)
           THEN session
           ELSE [session EXCEPT !.language_correction_pending = FALSE])
    /\ round_injected' = IF inject_language_context(gemini_ws)
                         THEN round_injected + 1 ELSE round_injected
    /\ reader_pc' = "recv"
    /\ seen' = NotSeen
    /\ NotTheReader
    /\ LangFrame
    /\ UNCHANGED << gemini_ws, reader_msg, hce_pc, hce_wait, scheduled, tc_after,
                    ended_by >>

\* the far end closes the model link
LangLinkLost ==
    /\ gemini_ws = "open"
    /\ gemini_ws' = "closed"
    /\ seen' = NotSeen
    /\ NotTheReader
    /\ LangFrame
    /\ UNCHANGED << session, reader_pc, reader_msg, hce_pc, hce_wait, scheduled,
                    tc_after, ended_by, round_injected >>

NextLang ==
    \/ \E m \in LangMessages : LangRecv(m)
    \/ LangInjectDone
    \/ LangLinkLost

SpecLang == InitLang /\ [][NextLang]_vars

\* ------------------------------------------------------------------------
\* Properties
\* ------------------------------------------------------------------------
\* the reader has just taken a function call
FcSeen == last_fc.name \in FunctionNames

\* the session was Active when the function call was taken
WasActive == ~ last_fc.s.call_ending /\ ~ last_fc.s.hangup_sent

WasPending == last_fc.s.language_correction_pending

\* the function call changed none of the call-control flags
FlagsKept ==
    /\ session.call_ending = last_fc.s.call_ending
    /\ session.hangup_sent = last_fc.s.hangup_sent
    /\ session.user_wants_transfer = last_fc.s.user_wants_transfer

\* exactly one response was sent, tagged with the call's id and name
OneTaggedResponse ==
    /\ Len(fc_resps) = 1
    /\ fc_resps[1].id = last_fc.id
    /\ fc_resps[1].name = last_fc.name

ErrorResponse == OneTaggedResponse /\ HasField(fc_resps[1], "error")

NeutralResponse == OneTaggedResponse /\ fc_resps[1].response = RESP_IGNORED

OkResponse == OneTaggedResponse /\ <<"status", "ok">> \in fc_resps[1].response

Commands == { issued[i] : i \in 1..Len(issued) }

\* the caller's recorded answer to the transfer question is negative
Declined(s) ==
    /\ s.transfer_question_asked_at
    /\ s.transfer_question_answered
    /\ _is_negative(s.last_transfer_answer_text)

C2_ScheduledAtMostOnce ==
    /\ scheduled <= 1
    /\ ~ ({"transfer", "hangup"} \subseteq Commands)
    /\ Len(issued) <= 1

\* C2 witness: a safety net ended the call, the command was issued and the
\* client handler has also finished.
C2_Witness ==
    /\ ended_by \in {"net_a", "net_b"}
    /\ Len(issued) = 1
    /\ hce_pc = "done"
    /\ handler_pc = "done"

\* C3: a function call taken while the call is younger than the setup grace
\* period leaves call_ending, hangup_sent and user_wants_transfer as they
\* were, and an Active session stays Active.
C3_NoTransitionInGrace ==
    (FcSeen /\ Age < SETUP_GRACE_S) =>
        /\ FlagsKept
        /\ WasActive => (~ session.call_ending /\ ~ session.hangup_sent)

\* C3 witness: a transfer_call in the grace period, in an Active session whose
\* caller has already asked to be connected.
C3_Witness ==
    /\ last_fc.name = "transfer_call"
    /\ Age < SETUP_GRACE_S
    /\ WasActive
    /\ ~ WasPending
    /\ _is_explicit_transfer_request(last_fc.s.last_user_text)
    /\ FlagsKept

\* C4 as stated: every transfer_call taken below the grace period is answered
\* with a response tagged with its id that has an error field, in every
\* session state.
C4_AsStated ==
    (last_fc.name = "transfer_call" /\ Age < SETUP_GRACE_S) =>
        \E i \in 1..Len(fc_resps) :
            fc_resps[i].id = last_fc.id /\ HasField(fc_resps[i], "error")

\* C4 amended: a transfer_call taken below the grace period is answered by
\* the session state: Active and no correction pending - one tagged response
\* with an error field; a correction pending - the one neutral response,
\* which has no error field; call_ending or hangup_sent set - no response.
C4_GraceAnswerByState ==
    (last_fc.name = "transfer_call" /\ Age < SETUP_GRACE_S) =>
        /\ (WasActive /\ ~ WasPending) => ErrorResponse
        /\ (WasActive /\ WasPending) =>
               (NeutralResponse /\ ~ HasField(fc_resps[1], "error"))
        /\ ~ WasActive => fc_resps = << >>

\* C4 witness: a transfer_call in the grace period answered with the error.
C4_Witness ==
    /\ last_fc.name = "transfer_call"
    /\ Age < SETUP_GRACE_S
    /\ WasActive
    /\ ~ WasPending
    /\ ErrorResponse

\* C5 as stated: with a negative recorded answer and no explicit transfer
\* phrase in the caller's latest utterance, a transfer_call gets an error
\* response, call_ending stays false and user_wants_transfer is not true.
C5_AsStated ==
    (/\ last_fc.name = "transfer_call"
     /\ Declined(last_fc.s)
     /\ ~ _is_explicit_transfer_request(last_fc.s.last_user_text)) =>
        /\ \E i \in 1..Len(fc_resps) : HasField(fc_resps[i], "error")
        /\ ~ session.call_ending
        /\ session.user_wants_transfer # "True"

\* C5 amended: with a negative recorded answer and no explicit transfer
\* phrase in the caller's latest utterance, a transfer_call is never accepted:
\* it changes neither call_ending nor user_wants_transfer and gets no ok
\* response. Active and no correction pending - an error response; a
\* correction pending - the neutral response; call already ending - none.
C5_DeclinedTransferNotAccepted ==
    (/\ last_fc.name = "transfer_call"
     /\ Declined(last_fc.s)
     /\ ~ _is_explicit_transfer_request(last_fc.s.last_user_text)) =>
        /\ session.call_ending = last_fc.s.call_ending
        /\ session.user_wants_transfer = last_fc.s.user_wants_transfer
        /\ \A i \in 1..Len(fc_resps) : <<"status", "ok">> \notin fc_resps[i].response
        /\ (WasActive /\ ~ WasPending) => (ErrorResponse /\ FlagsKept)
        /\ (WasActive /\ WasPending) => NeutralResponse
        /\ ~ WasActive => fc_resps = << >>

\* C5 witness: past the grace period, the caller has declined and the
\* transfer_call is rejected by the validation.
C5_Witness ==
    /\ last_fc.name = "transfer_call"
    /\ Declined(last_fc.s)
    /\ ~ _is_explicit_transfer_request(last_fc.s.last_user_text)
    /\ Age >= SETUP_GRACE_S
    /\ WasActive
    /\ ~ WasPending
    /\ fc_resps[1].response = RESP_TRANSFER_DENIED
    /\ session.user_wants_transfer # "True"

\* C6: a function call taken while language_correction_pending is true gets
\* the one neutral response, changes none of call_ending, hangup_sent and
\* user_wants_transfer, and no terminal action is scheduled.
C6_DeflectedWhilePending ==
    (FcSeen /\ WasPending) =>
        /\ NeutralResponse
        /\ FlagsKept
        /\ scheduled = 0
        /\ hce_pc = "idle"

\* C6 witness: an end_call past the grace period, after the transfer question,
\* deflected because a correction is pending.
C6_Witness ==
    /\ last_fc.name = "end_call"
    /\ WasPending
    /\ Age >= SETUP_GRACE_S
    /\ last_fc.s.transfer_question_asked_at
    /\ NeutralResponse

\* C7 as stated: every function call taken by the reader is answered by
\* exactly one response with the same id and name before the next message,
\* also when call_ending or hangup_sent is already set.
C7_AsStated == FcSeen => OneTaggedResponse

C8_Valid ==
    IF last_fc.name = "transfer_call"
    THEN \/ _is_explicit_transfer_request(last_fc.s.last_user_text)
         \/ /\ last_fc.s.transfer_question_asked_at
            /\ last_fc.s.transfer_question_answered
            /\ ~ _is_negative(last_fc.s.last_transfer_answer_text)
    ELSE last_fc.s.transfer_question_asked_at \/ Age >= END_CALL_MIN_S

C9_DeclinedEndsInHangup ==
    (/\ Declined(session)
     /\ ended_by \in {"end_call", "net_a", "net_b"}
     /\ scheduled >= 1) =>
        /\ session.user_wants_transfer = "False"
        /\ "transfer" \notin Commands
        /\ Len(issued) <= 1
        /\ hce_pc \in {"hangup_api", "hangup_sleep", "done"} => issued = << "hangup" >>
        /\ hce_pc = "done" => session.call_control_event.type = "hangup"

\* C9 witness: the caller said "Nahi", the model called end_call, and the
\* terminal action has finished.
C9_Witness ==
    /\ Declined(session)
    /\ Lower(session.last_transfer_answer_text) = << "nahi" >>
    /\ ended_by = "end_call"
    /\ hce_pc = "done"
    /\ issued = << "hangup" >>
    /\ session.user_wants_transfer = "False"

\* C10 as stated: when the terminal action has finished, whatever command it
\* issued, the client WebSocket is closed.
C10_AsStated == hce_pc = "done" => client_ws = "closed"

\* C10 amended: a terminal action that issued a hangup ends with the client
\* WebSocket closed; one that issued a transfer makes no close call.
C10_ClosedAfterHangupOnly ==
    hce_pc = "done" =>
        /\ issued = << "hangup" >> => client_ws = "closed"
        /\ issued = << "transfer" >> => closes = 0

\* C10 witness: the hangup branch itself closed the socket.
C10_Witness ==
    /\ hce_pc = "done"
    /\ issued = << "hangup" >>
    /\ closes = 1
    /\ client_ws = "closed"

\* C11: when the control-API call of the terminal action fails (error status,
\* exception or no credentials), the WebSocket fallback is attempted exactly
\* once and the client connection is then closed, for a transfer as well as
\* for a hangup
C11_AsStated ==
    (hce_pc = "done" /\ api_result \in {"failed", "no_token"}) =>
        (fallbacks = 1 /\ client_ws = "closed")

\* C12: once the terminal action is scheduled, its wait_time never exceeds the
\* bound of the drain wait, and it goes on to issue its command even if the
\* output queue never becomes empty
C12_IssuesAfterBoundedDrain ==
    /\ [](hce_wait <= DrainPolls)
    /\ (hce_pc = "drain") ~> (Len(issued) = 1)

\* the drain wait timed out on a queue that is still not empty, and the
\* command was issued all the same
C12_Witness ==
    /\ Len(issued) = 1
    /\ hce_wait = DrainPolls
    /\ Len(session.output_buffer) > 0

\* C13: after the reader has cleared the queue on an interruption, the queue
\* holds no sample queued before it and at most one chunk of such samples (the
\* chunk already popped and being sent) is delivered; a pacer that wakes from
\* its paced sleep to a cleared queue sends nothing
C13_OvershootAtMostOneChunk ==
    /\ [](/\ stale_sent <= ChunkSamples
          /\ \A i \in 1..Len(session.output_buffer) :
                 session.output_buffer[i] > cleared_upto)
    /\ [][(/\ sender_pc = "sleep"
           /\ sender_pc' # "sleep"
           /\ Len(session.output_buffer) < ChunkSamples)
              => (frames' = frames /\ chunk' = chunk /\ sender_pc' # "send")]_vars

\* both cases happened: the sleeping pacer woke to a cleared queue and sent
\* nothing, and a chunk in flight at an interruption was delivered after it
C13_Witness ==
    /\ aborted
    /\ stale_sent = ChunkSamples

\* C14 as stated: every media frame holds exactly one chunk and consecutive
\* frames are never less than one chunk duration apart
C14_AsStated ==
    \A i \in 1..Len(frames) :
        /\ Len(frames[i].samples) = ChunkSamples
        /\ i > 1 => frames[i].at - frames[i-1].at >= ChunkTicks

\* the frame was not sent behind its schedule
OnTime(f) == f.due = NoTime \/ f.at = f.due

\* C14: every media frame holds exactly one chunk; a frame sent while
\* next_send_time is set is not sent before it; such a frame follows a frame
\* that was not behind schedule by at least one chunk duration
C14_PacedFrames ==
    \A i \in 1..Len(frames) :
        /\ Len(frames[i].samples) = ChunkSamples
        /\ frames[i].due # NoTime => frames[i].at >= frames[i].due
        /\ (i > 1 /\ frames[i].due # NoTime /\ OnTime(frames[i-1]))
               => frames[i].at - frames[i-1].at >= ChunkTicks

\* after an underrun reset the pacing, a frame went out less than one chunk
\* duration after the frame before it
C14_Witness ==
    /\ Len(frames) = 2
    /\ frames[2].due = NoTime
    /\ frames[2].at - frames[1].at < ChunkTicks

\* the samples of the last frames followed by those still queued
SentThenQueued ==
    (IF Len(frames) = 0 THEN << >>
     ELSE IF Len(frames) = 1 THEN frames[1].samples
     ELSE frames[1].samples \o frames[2].samples) \o session.output_buffer

\* C15: the samples handed to the client, followed by the samples still
\* queued, are in the order in which the reader queued them, none twice,
\* whatever the interleaving of appends, clears and pops
C15_InOrderAtMostOnce ==
    /\ \A i \in 1..Len(SentThenQueued) : SentThenQueued[i] < next_slot
    /\ \A i \in 1..Len(SentThenQueued) : \A j \in 1..Len(SentThenQueued) :
           i < j => SentThenQueued[i] < SentThenQueued[j]

\* two frames were sent with an interruption clear between the appends, and
\* samples queued between them were never sent
C15_Witness ==
    /\ Len(frames) = 2
    /\ cleared_upto > 0
    /\ frames[2].samples[1] > frames[1].samples[ChunkSamples] + 1

\* the reader has just handled a turn boundary
TurnDone == seen.taken /\ seen.m.turnComplete /\ ~ seen.s.hangup_sent

\* the language monitor compared the languages at that turn boundary
Enforced ==
    /\ TurnDone
    /\ ~ seen.s.language_correction_pending
    /\ ~ seen.s.call_ending
    /\ seen.s.current_turn_agent_text # NoText

\* words of more than one character
Meaningful(text) == Len(text) - CountIn(text, ONE_CHAR_WORDS)

DataUtterance(text) ==
    \/ Meaningful(text) < MEANINGFUL_MIN_WORDS
    \/ _is_data_response(text)
    \/ WordsOf(Lower(text)) \cap EMAIL_WORDS # {}

C18_AsStated ==
    (/\ TurnDone
     /\ _detect_language(seen.s.current_turn_user_text)[2] = "B"
     /\ _detect_language(seen.s.current_turn_user_text)[1] # seen.s.language_state)
        => session.language_state = _detect_language(seen.s.current_turn_user_text)[1]

\* C19 as stated: a caller turn holding 5 or more digits is category A and
\* leaves language_state as it was
C19_AsStated ==
    (TurnDone /\ SumDigits(Lower(seen.s.current_turn_user_text)) >= 5)
        => (/\ _detect_language(seen.s.current_turn_user_text)[2] = "A"
            /\ session.language_state = seen.s.language_state)

\* C19: a caller turn holding PHONE_MIN_DIGITS or more digits is category A
\* and leaves language_state as it was, whatever its other words are
C19_PhoneNumberIsData ==
    (TurnDone /\ SumDigits(Lower(seen.s.current_turn_user_text)) >= PHONE_MIN_DIGITS)
        => (/\ _detect_language(seen.s.current_turn_user_text)[2] = "A"
            /\ session.language_state = seen.s.language_state)

\* the monitor ran on a caller turn with a phone number among four or more
\* words that are not Hindi, while Hindi was expected
C19_Witness ==
    /\ Enforced
    /\ SumDigits(Lower(seen.s.current_turn_user_text)) >= PHONE_MIN_DIGITS
    /\ _detect_language_by_length(seen.s.current_turn_user_text) = <<"english", "B">>
    /\ seen.s.language_state = "hindi"

\* the agent text of the turn so far, once the reader has added the
\* transcription of the message it took
AgentTextSoFar ==
    IF seen.m.speaker = "agent"
    THEN seen.s.current_turn_agent_text \o seen.m.text
    ELSE seen.s.current_turn_agent_text

\* the reader took audio while a correction was pending and the agent text of
\* the turn so far matched an acknowledgment phrase
AckAudioTaken ==
    /\ seen.taken
    /\ seen.m.audio # << >>
    /\ seen.s.language_correction_pending
    /\ ContainsAny(Lower(AgentTextSoFar), ACK_PATTERNS)

\* C20: audio taken while a correction is pending and the agent text of the
\* turn so far matches an acknowledgment phrase is not appended to the queue
C20_AckAudioNotQueued ==
    AckAudioTaken => session.output_buffer = seen.s.output_buffer

\* such audio arrived with room in the queue, and the flag is still pending
C20_Witness ==
    /\ AckAudioTaken
    /\ ~ seen.m.turnComplete
    /\ session.language_correction_pending
    /\ session.output_buffer = << >>

\* ------------------------------------------------------------------------
\* C21: safety nets and the call age
\* ------------------------------------------------------------------------
\* a turn-complete taken in an Active session with no accepted function call
\* ended the call through a safety net in this step
SafetyNetFires ==
    /\ ended_by = "none"
    /\ ended_by' \in {"net_a", "net_b"}

\* C21 (as stated): a safety net ends the call at a turn-complete only when
\* the call is older than the minimum age of 30 s.
C21_AsStated ==
    [][SafetyNetFires => Age > GOODBYE_MIN_AGE_S]_vars

\* ------------------------------------------------------------------------
\* handle_client in detail: from the accepted connection to the return of
\* the handler, with the finalize call and the finally block as steps of
\* their own
\* ------------------------------------------------------------------------
\* asyncio.wait_for(client_ws.recv(), timeout=10.0)
FIRST_FRAME_TIMEOUT_S == 10
\* client_ws.close(code=1008, ...)
POLICY_VIOLATION == 1008

\* what the wait for the first frame can give: a start event, another event,
\* a frame json.loads or .get() raises on, the timeout, the client gone
FirstWaits == { "start", "other_event", "malformed", "timeout", "closed" }

\* session.gemini.connect() as the handler's await sees it: it returns, it
\* raises, or the opening handshake of the link times out
ConnectOutcomes == { "ok", "error", "timeout" }

\* the pipeline of _save_call_data completes or fails inside
SaveOutcomes == { "ok", "failed" }

\* a first wait whose timeout is taken for an error like any other
AfterFirstWaitNoTimeout(f) ==
    CASE f = "start"       -> [pc |-> "connect", code |-> 0]
      [] f = "other_event" -> [pc |-> "finally", code |-> POLICY_VIOLATION]
      [] OTHER             -> [pc |-> "save", code |-> 0]

\* where the handler goes after the first wait, and the close code it sends:
\* the return at "Expected start event", except asyncio.TimeoutError,
\* except ConnectionClosed, except Exception
AfterFirstWait(f) ==
    CASE f = "start"       -> [pc |-> "connect", code |-> 0]
      [] f = "other_event" -> [pc |-> "finally", code |-> POLICY_VIOLATION]
      [] f = "timeout"     -> [pc |-> "finally", code |-> POLICY_VIOLATION]
      [] f = "closed"      -> [pc |-> "save", code |-> 0]
      [] f = "malformed"   -> [pc |-> "save", code |-> 0]

\* a pipeline whose failure reaches the caller
SaveRaisesOnFailure(outcome) == outcome = "failed"

\* _save_call_data wraps its pipeline in try / except Exception: whatever
\* fails inside is printed and nothing is raised to handle_client
SaveRaises(outcome) == FALSE

\* _save_call_data returns at once for an unknown call id or an empty
\* conversation
PipelineRuns == first_frame = "start" /\ session.conversation > 0

\* a finally block that leaves the flag alone
LeaveFlag(s) == s

\* finally: session.closed = True
EnsureClosed(s) == [s EXCEPT !.closed = TRUE]

InitHandler ==
    /\ session = NewSession
    /\ now = 0
    /\ client_ws = "open"
    /\ gemini_ws = "closed"
    /\ reader_pc = "none"
    /\ reader_msg = NoMsg
    /\ sender_pc = "none"
    /\ handler_pc = "first"
    /\ hce_pc = "idle"
    /\ hce_wait = 0
    /\ scheduled = 0
    /\ issued = << >>
    /\ closes = 0
    /\ finalized = 0
    /\ last_fc = NoFc
    /\ fc_resps = << >>
    /\ tc_after = 0
    /\ ended_by = "none"
    /\ NothingObserved

\* what no step of the handler touches
HandlerFrame ==
    /\ NotTheReader
    /\ UNCHANGED << now, reader_msg, hce_pc, hce_wait, scheduled, issued, closes,
                    tc_after, ended_by, end_obs, pacer_vars, lang_obs, tr_obs,
                    xf_obs, cn_obs, late_obs >>

\* the wait for the first frame is over: with a frame or the client gone
\* before the timeout, with the timeout otherwise
FirstWaitOver(f) ==
    /\ handler_pc = "first"
    /\ (f = "timeout") <=> (Age >= FIRST_FRAME_TIMEOUT_S)
    /\ first_frame' = f
    /\ handler_pc' = AfterFirstWait(f).pc
    /\ close_code' = AfterFirstWait(f).code
    /\ client_ws' = IF f = "closed" \/ AfterFirstWait(f).code # 0
                    THEN "closed" ELSE client_ws
    /\ HandlerFrame
    /\ UNCHANGED << session, gemini_ws, reader_pc, sender_pc, finalized, save_log >>

\* await gemini_connect_task; on its return both tasks are created and the
\* greeting is triggered
ConnectDone(c) ==
    /\ handler_pc = "connect"
    /\ CASE c = "ok" ->
              /\ gemini_ws' = "open"
              /\ reader_pc' = "recv"
              /\ sender_pc' = "run"
              /\ handler_pc' = "loop"
              /\ UNCHANGED << client_ws, close_code >>
         [] c = "error" ->
              /\ handler_pc' = "save"
              /\ UNCHANGED << gemini_ws, reader_pc, sender_pc, client_ws, close_code >>
         [] c = "timeout" ->
              /\ handler_pc' = "finally"
              /\ close_code' = POLICY_VIOLATION
              /\ client_ws' = "closed"
              /\ UNCHANGED << gemini_ws, reader_pc, sender_pc >>
    /\ HandlerFrame
    /\ UNCHANGED << session, finalized, first_frame, save_log >>

\* the call of _save_call_data on the normal exit sits inside the try block:
\* closed was set just before it and no except clause has run
InTryBlock == session.closed /\ save_log = << >>

\* _save_call_data is called
HandlerSaves(outcome) ==
    /\ handler_pc = "save"
    /\ save_log' = Append(save_log, [closed |-> session.closed,
                                     link |-> gemini_ws,
                                     ran |-> PipelineRuns,
                                     outcome |-> outcome])
    /\ finalized' = finalized + 1
    /\ handler_pc' = IF SaveRaises(outcome) /\ InTryBlock
                     THEN "save" ELSE "finally"
    /\ HandlerFrame
    /\ UNCHANGED << session, client_ws, gemini_ws, reader_pc, sender_pc,
                    first_frame, close_code >>

\* finally: closed is set and the model link closed; the handler returns and
\* the server closes the client connection
HandlerFinally ==
    /\ handler_pc = "finally"
    /\ session' = EnsureClosed(session)
    /\ gemini_ws' = "closed"
    /\ client_ws' = "closed"
    /\ handler_pc' = "done"
    /\ HandlerFrame
    /\ UNCHANGED << reader_pc, sender_pc, finalized, td_obs >>

\* what the model sends during the bridge: transcription fragments and audio
BridgeMessages ==
    { m \in Messages : m.fc = "none" /\ ~ m.interrupted /\ ~ m.turnComplete }

NextHandler ==
    \/ \E f \in FirstWaits : FirstWaitOver(f)
    \/ \E c \in ConnectOutcomes : ConnectDone(c)
    \/ \E m \in BridgeMessages : ReaderRecv(m)
    \/ ReaderExit
    \/ SenderSend
    \/ SenderExit
    \/ ClientStop
    \/ ClientEof
    \/ \E lost \in BOOLEAN : ClientError(lost)
    \/ \E outcome \in SaveOutcomes : HandlerSaves(outcome)
    \/ HandlerFinally
    \/ Tick
    \/ ModelLinkLost

SpecHandler == InitHandler /\ [][NextHandler]_vars

\* the handler's own next step once the receive loop is over
HandlerStep == (\E outcome \in SaveOutcomes : HandlerSaves(outcome)) \/ HandlerFinally

\* the pacer's next step: a chunk, or the exit on the closed flag
SenderStep == SenderSend \/ SenderExit

\* each task is scheduled again when what it awaits is over; what the client
\* and the model send is not constrained
SpecHandlerFair ==
    /\ InitHandler
    /\ [][NextHandler]_vars
    /\ WF_vars(HandlerStep)
    /\ WF_vars(ReaderExit)
    /\ WF_vars(SenderStep)

\* ------------------------------------------------------------------------
\* C22 .. C27: teardown and the first frame
\* ------------------------------------------------------------------------
\* C22: whatever combination of teardown triggers occurs (client disconnect,
\* model-link loss, stop frame, exception in the handler), _save_call_data is
\* called at most once in a session.
C22_FinalizeAtMostOnce ==
    /\ Len(save_log) <= 1
    /\ finalized <= 1

\* C22 witness: the model link was lost, the reader ended, the client then
\* disconnected, and the handler returned after one finalize call whose
\* pipeline ran and failed inside.
C22_Witness ==
    /\ handler_pc = "done"
    /\ reader_pc = "done"
    /\ Len(save_log) = 1
    /\ save_log[1].link = "closed"
    /\ ~ save_log[1].closed
    /\ save_log[1].ran
    /\ save_log[1].outcome = "failed"

\* C24 (as stated): on every teardown path the closed flag is set and the
\* model link is closed before the finalize pass starts.
C24_AsStated ==
    \A i \in DOMAIN save_log :
        save_log[i].ran => (save_log[i].closed /\ save_log[i].link = "closed")

\* C26 (as stated): a first frame that is not a well-formed start event gets
\* the connection closed with code 1008, and no pacer or reader is started.
C26_AsStated ==
    (first_frame \in {"other_event", "malformed"} /\ handler_pc \in {"finally", "done"})
        => (/\ close_code = POLICY_VIOLATION
            /\ reader_pc = "none"
            /\ sender_pc = "none")

\* C27: when no first frame arrives within the timeout the client socket is
\* closed with code 1008, neither the pacer nor the reader is started, and
\* _save_call_data is never called.
C27_TimeoutRejects ==
    first_frame = "timeout"
        => (/\ close_code = POLICY_VIOLATION
            /\ client_ws = "closed"
            /\ reader_pc = "none"
            /\ sender_pc = "none"
            /\ save_log = << >>
            /\ finalized = 0)

\* C27 witness: the timeout ran out and the handler has returned.
C27_Witness ==
    /\ first_frame = "timeout"
    /\ Age >= FIRST_FRAME_TIMEOUT_S
    /\ handler_pc = "done"

\* the model link went down while the handler sits in its receive loop
LinkLostInCall == gemini_ws = "closed" /\ handler_pc = "loop"

\* C23 (as stated): when the model link closes during a call the reader ends
\* and the finalize path is eventually triggered, whatever the client does.
C23_AsStated ==
    LinkLostInCall ~> (reader_pc = "done" /\ Len(save_log) >= 1)

\* the receive loop has ended, by any path, in a call whose tasks were created
LoopOver == handler_pc \in {"save", "finally"} /\ reader_pc # "none"

\* C25: after the client receive loop has ended by any path, session.closed
\* becomes true and both the pacer and the reader terminate.
C25_TasksTerminate ==
    LoopOver ~> (session.closed /\ reader_pc = "done" /\ sender_pc = "done")

\* C25 witness: the loop ended with an exception, so that no task was
\* cancelled and the finalize call found the flag unset and the link open;
\* the handler has returned and both tasks have ended on their own.
C25_Witness ==
    /\ handler_pc = "done"
    /\ Len(save_log) = 1
    /\ ~ save_log[1].closed
    /\ save_log[1].link = "open"
    /\ session.closed
    /\ reader_pc = "done"
    /\ sender_pc = "done"

\* ------------------------------------------------------------------------
\* The transcript: the reader on the messages of the model as they are on
\* the wire, where one serverContent may hold an interruption flag, a
\* turn boundary, an input transcription and an output transcription at once
\* ------------------------------------------------------------------------
\* most transcription events of one run
MaxEvents == 3

WireUserTexts == { <<"haan">>, <<"please", "tell", "me", "about", "the", "car">> }
WireAgentTexts == { <<"aapka", "swagat", "hai">>, <<"which", "car", "do", "you", "like">> }

WireMessages ==
    [ interrupted : BOOLEAN,
      turnComplete : BOOLEAN,
      input : {NoText} \cup WireUserTexts,
      output : {NoText} \cup WireAgentTexts ]

\* _extract_transcription: the input transcription if the message has one,
\* else the output transcription, else nothing
_extract_transcription(w) ==
    IF w.input # NoText THEN << "user", w.input >>
    ELSE IF w.output # NoText THEN << "agent", w.output >>
    ELSE << "none", NoText >>

\* the message as the loop body of the reader reads it
Demux(w) ==
    [NoMsg EXCEPT !.interrupted = w.interrupted,
                  !.turnComplete = w.turnComplete,
                  !.speaker = _extract_transcription(w)[1],
                  !.text = _extract_transcription(w)[2]]

\* the transcription events a message carries
EventsOf(w) ==
    (IF w.input # NoText THEN << << "user", w.input >> >> ELSE << >>)
    \o (IF w.output # NoText THEN << << "agent", w.output >> >> ELSE << >>)

TranscriptFrame ==
    UNCHANGED << now, client_ws, gemini_ws, sender_pc, handler_pc, issued, closes,
                 finalized, end_obs, pacer_vars, lang_obs, td_obs, xf_obs, cn_obs,
                 late_obs >>

\* the reader takes the message w and runs to its first suspension point;
\* session.conversation.append(transcription) is the one place that writes
\* the transcript
TranscriptRecv(w) ==
    /\ reader_pc = "recv"
    /\ gemini_ws = "open"
    /\ Len(received) + Len(EventsOf(w)) <= MaxEvents
    /\ LET m == Demux(w)
       IN  /\ IF m.interrupted
              THEN /\ session' = [session EXCEPT !.output_buffer = << >>]
                   /\ UNCHANGED << reader_pc, reader_msg, hce_pc, hce_wait,
                                   scheduled, tc_after, ended_by >>
              ELSE RestOfMessage(session, m, ended_by)
           /\ transcript' = IF session'.conversation > session.conversation
                            THEN Append(transcript, << m.speaker, m.text >>)
                            ELSE transcript
    /\ received' = received \o EventsOf(w)
    /\ NotTheReader
    /\ TranscriptFrame

NextTranscript ==
    \/ \E w \in WireMessages : TranscriptRecv(w)
    \/ ReaderInjectDone
    \/ ModelLinkLost
    \/ ReaderExit

SpecTranscript == Init /\ [][NextTranscript]_vars

\* the transcript is the received events with some left out
RECURSIVE IsSubsequence(_, _)
IsSubsequence(a, b) ==
    IF a = << >> THEN TRUE
    ELSE IF b = << >> THEN FALSE
    ELSE IF Head(a) = Head(b) THEN IsSubsequence(Tail(a), Tail(b))
    ELSE IsSubsequence(a, Tail(b))

\* what does hold of the transcript: it is the received events in their
\* order with some left out, and a step only ever appends to it
TranscriptIsPartOfReceived == IsSubsequence(transcript, received)

TranscriptOnlyGrows ==
    [][\/ transcript' = transcript
       \/ \E e \in {"user", "agent"} \X (WireUserTexts \cup WireAgentTexts) :
              transcript' = Append(transcript, e)]_vars

\* C28 (as stated): at every point the transcript equals the sequence of the
\* transcription events received so far, in the order of their arrival.
C28_AsStated == transcript = received

\* ------------------------------------------------------------------------
\* The crossfade append as a function: queues and chunks of every length
\* around XFADE, with sample values that tell the positions apart
\* ------------------------------------------------------------------------
\* most appends of one run
MaxAppends == 2

\* len samples starting at base and rising by step
Ramp(len, base, step) == [i \in 1..len |-> base + (i - 1) * step]

\* what the pacer may have left in the queue: nothing, fewer than XFADE
\* samples, exactly XFADE, more
QueueLengths == { 0, 1, 5, XFADE, XFADE + 1 }
Queues == { Ramp(l, b, st) : l \in QueueLengths, b \in {-3, 40}, st \in {0, 1} }

\* decoded chunks shorter than, as long as, and longer than XFADE
ChunkLengths == { 3, XFADE, XFADE + 1, XFADE + 2 }
Chunks == { Ramp(l, b, st) : l \in ChunkLengths, b \in {4, -50}, st \in {0, 2} }

InitXfade ==
    /\ \E q \in Queues : session = [NewSession EXCEPT !.output_buffer = q]
    /\ now = 0
    /\ client_ws = "open"
    /\ gemini_ws = "open"
    /\ reader_pc = "recv"
    /\ reader_msg = NoMsg
    /\ sender_pc = "run"
    /\ handler_pc = "loop"
    /\ hce_pc = "idle"
    /\ hce_wait = 0
    /\ scheduled = 0
    /\ issued = << >>
    /\ closes = 0
    /\ finalized = 0
    /\ last_fc = NoFc
    /\ fc_resps = << >>
    /\ tc_after = 0
    /\ ended_by = "none"
    /\ NothingObserved

\* the reader buffers the decoded chunk n
XfadeAppend(n) ==
    /\ appends < MaxAppends
    /\ session' = [session EXCEPT !.output_buffer = CrossfadeAppend(@, n)]
    /\ buf_before' = session.output_buffer
    /\ last_chunk' = n
    /\ appends' = appends + 1
    /\ UNCHANGED << now, client_ws, gemini_ws, reader_pc, reader_msg, sender_pc,
                    handler_pc, hce_pc, hce_wait, scheduled, issued, closes,
                    finalized, last_fc, fc_resps, tc_after, ended_by, end_obs,
                    pacer_vars, lang_obs, td_obs, tr_obs, cn_obs, late_obs >>

NextXfade == \E n \in Chunks : XfadeAppend(n)

SpecXfade == InitXfade /\ [][NextXfade]_vars

\* the i-th step of the ramp: weight i / XFADE on the new sample
Blend(queued, new, i) == TruncDiv(queued * (XFADE - i) + new * i, XFADE)

\* the queue r is the queue q with the chunk n cross-faded onto its end: the
\* samples before the last XFADE are kept, the last XFADE (as many as there
\* are) are blended with the first samples of n up to weight 1 at the seam,
\* and the rest of n follows
CrossFaded(q, n, r) ==
    LET buf_len == Len(q)
    IN  /\ Len(r) = buf_len + Len(n) - XFADE
        /\ \A k \in 1..buf_len : k <= buf_len - XFADE => r[k] = q[k]
        /\ \A i \in 1..XFADE :
               buf_len - XFADE + i >= 1 =>
                   r[buf_len - XFADE + i] = Blend(q[buf_len - XFADE + i], n[i], i)
        /\ \A j \in 1..(Len(n) - XFADE) : r[buf_len + j] = n[XFADE + j]

\* C29 (as stated): a chunk longer than XFADE appended to a non-empty queue
\* is cross-faded onto the end of the queue; a chunk of at most XFADE samples,
\* or any chunk appended to an empty queue, is appended unchanged.
C29_AsStated ==
    appends > 0 =>
        IF buf_before # << >> /\ Len(last_chunk) > XFADE
        THEN CrossFaded(buf_before, last_chunk, session.output_buffer)
        ELSE session.output_buffer = buf_before \o last_chunk

\* what does hold: the same for queues that hold at least XFADE samples
CrossfadeOnLongQueues ==
    (appends > 0 /\ (buf_before = << >> \/ Len(buf_before) >= XFADE)) =>
        IF buf_before # << >> /\ Len(last_chunk) > XFADE
        THEN CrossFaded(buf_before, last_chunk, session.output_buffer)
        ELSE session.output_buffer = buf_before \o last_chunk

\* ------------------------------------------------------------------------
\* GeminiLiveSession.connect after the setup message was sent, and
\* GeminiLiveSession.messages: who reads which message off the socket
\* ------------------------------------------------------------------------
\* asyncio.wait_for(self._ws.recv(), timeout=10.0)
SETUP_ACK_TIMEOUT_S == 10

\* most messages the far end sends in one run
MaxWire == 3

WireKinds == { "setupComplete", "serverContent", "toolCall" }

\* a handshake that hands a message that is no acknowledgment back
SetupPushesBack(first) ==
    CASE first = "none"          -> [setup |-> "timeout", takes |-> 0]
      [] first = "setupComplete" -> [setup |-> "ack", takes |-> 1]
      [] OTHER                   -> [setup |-> "not_ack", takes |-> 0]

\* the wait for the acknowledgment: what it logs and how many messages it
\* reads; first is the kind of the first message, "none" if the wait timed out
SetupWait(first) ==
    CASE first = "none"          -> [setup |-> "timeout", takes |-> 0]
      [] first = "setupComplete" -> [setup |-> "ack", takes |-> 1]
      [] OTHER                   -> [setup |-> "not_ack", takes |-> 1]

InitConnect ==
    /\ session = NewSession
    /\ now = 0
    /\ client_ws = "open"
    /\ gemini_ws = "open"
    /\ reader_pc = "none"
    /\ reader_msg = NoMsg
    /\ sender_pc = "none"
    /\ handler_pc = "connect"
    /\ hce_pc = "idle"
    /\ hce_wait = 0
    /\ scheduled = 0
    /\ issued = << >>
    /\ closes = 0
    /\ finalized = 0
    /\ last_fc = NoFc
    /\ fc_resps = << >>
    /\ tc_after = 0
    /\ ended_by = "none"
    /\ NothingObserved

ConnectFrame ==
    /\ NotTheReader
    /\ UNCHANGED << session, now, client_ws, gemini_ws, reader_msg, hce_pc, hce_wait,
                    scheduled, issued, closes, finalized, tc_after, ended_by,
                    end_obs, pacer_vars, lang_obs, td_obs, tr_obs, xf_obs,
                    late_obs >>

\* the far end sends a message
FarEndSends(k) ==
    /\ gemini_ws = "open"
    /\ Len(wire) < MaxWire
    /\ wire' = Append(wire, [kind |-> k, n |-> Len(wire) + 1])
    /\ ConnectFrame
    /\ UNCHANGED << reader_pc, sender_pc, handler_pc, taken, observed, setup >>

\* the wait of connect() is over, with the first message or with the timeout;
\* connect() returns and the handler starts the pacer and the reader
SetupWaitOver ==
    /\ handler_pc = "connect"
    /\ setup = "waiting"
    /\ taken < Len(wire) \/ Age >= SETUP_ACK_TIMEOUT_S
    /\ LET first == IF taken < Len(wire) THEN wire[taken + 1].kind ELSE "none"
       IN  /\ setup' = SetupWait(first).setup
           /\ taken' = taken + SetupWait(first).takes
    /\ handler_pc' = "loop"
    /\ reader_pc' = "recv"
    /\ sender_pc' = "run"
    /\ ConnectFrame
    /\ UNCHANGED << wire, observed >>

\* messages() yields the next message to the loop of the reader
MessagesYields ==
    /\ reader_pc = "recv"
    /\ taken < Len(wire)
    /\ observed' = Append(observed, wire[taken + 1])
    /\ taken' = taken + 1
    /\ ConnectFrame
    /\ UNCHANGED << reader_pc, sender_pc, handler_pc, wire, setup >>

NextConnect ==
    \/ \E k \in WireKinds : FarEndSends(k)
    \/ SetupWaitOver
    \/ MessagesYields
    \/ Tick

SpecConnect == InitConnect /\ [][NextConnect]_vars

\* connect() has returned without an acknowledgment
SoftFailed == setup \in {"timeout", "not_ack"}

\* C30 (as stated): after a soft-failed handshake connect() has returned
\* normally, the session continues, and the inbound loop observes every
\* message the far end sends: none is read by anyone else.
C30_AsStated ==
    SoftFailed =>
        /\ handler_pc = "loop"
        /\ reader_pc = "recv"
        /\ taken = Len(observed)
        /\ observed = SubSeq(wire, 1, taken)

\* C30 (amended): after a soft-failed handshake connect() has returned
\* normally and the session continues; after a timeout the inbound loop
\* observes every message the far end sends; a first message that is not an
\* acknowledgment was read by connect() and is never observed by the loop,
\* which observes every message after it.
C30_SoftFailKeepsLaterMessages ==
    /\ SoftFailed => (handler_pc = "loop" /\ reader_pc = "recv")
    /\ setup = "timeout" =>
           (taken = Len(observed) /\ observed = SubSeq(wire, 1, taken))
    /\ setup = "not_ack" =>
           /\ wire[1].kind # "setupComplete"
           /\ taken = Len(observed) + 1
           /\ observed = SubSeq(wire, 2, taken)

\* C30 witness: the first message was not an acknowledgment, connect()
\* returned, and the loop has observed the two messages sent after it.
C30_Witness ==
    /\ setup = "not_ack"
    /\ Len(wire) = 3
    /\ Len(observed) = 2
    /\ observed[1].n = 2

\* ------------------------------------------------------------------------
\* The whole call with the stop frame observed
\* ------------------------------------------------------------------------
\* a stop frame that leaves the session unmarked
LeaveUnmarked(s) == s

\* if not session.hangup_sent: session.hangup_sent = True
MarkHangupSent(s) == [s EXCEPT !.hangup_sent = TRUE]

\* a stop / end / close frame: the mark, the break, and the normal exit of
\* the loop up to its first await
StopFrame ==
    /\ handler_pc = "loop"
    /\ client_ws = "open"
    /\ LoopEnded(MarkHangupSent(session))
    /\ stopped' = TRUE
    /\ sched_at_stop' = scheduled
    /\ NotTheReader
    /\ UNCHANGED << now, client_ws, gemini_ws, hce_pc, hce_wait, scheduled, issued,
                    closes, finalized, tc_after, ended_by, end_obs, pacer_vars,
                    lang_obs, td_obs, tr_obs, xf_obs, cn_obs, lk_obs >>

NextStop ==
    \/ \E m \in Messages : ReaderRecv(m)
    \/ ReaderResume
    \/ ReaderInjectDone
    \/ ReaderExit
    \/ SenderSend
    \/ SenderExit
    \/ HceDrainPoll
    \/ HceDrainDone
    \/ HceIssue
    \/ \E api \in ApiOutcomes, has_number \in BOOLEAN : HceTransferDone(api, has_number)
    \/ \E api \in ApiOutcomes : HceHangupDone(api)
    \/ HceHangupClose
    \/ StopFrame
    \/ ClientEof
    \/ \E lost \in BOOLEAN : ClientError(lost)
    \/ HandlerSave
    \/ Tick
    \/ ModelLinkLost

SpecStop == Init /\ [][NextStop]_vars

CtlMessages == { m \in Messages : m.fc = "none" /\ ~ m.interrupted }

NextLangCtl ==
    \/ \E m \in CtlMessages : LangRecv(m)
    \/ LangInjectDone
    \/ LangLinkLost

SpecLangCtl == InitLang /\ [][NextLangCtl]_vars

\* the reader has just handled a turn-complete as a language mismatch (the
\* correction is being injected) or as the response to a pending correction
CorrectionTurn ==
    /\ seen.taken
    /\ seen.m.turnComplete
    /\ ~ seen.s.hangup_sent
    /\ seen.s.language_correction_pending \/ reader_pc = "inject"

\* C32: a turn-complete handled as a language mismatch or as the response to a
\* pending correction leaves call_ending, hangup_sent and user_wants_transfer
\* as they were and schedules no terminal action.
C32_CorrectionKeepsCallControl ==
    CorrectionTurn =>
        /\ session.call_ending = seen.s.call_ending
        /\ session.hangup_sent = seen.s.hangup_sent
        /\ session.user_wants_transfer = seen.s.user_wants_transfer
        /\ scheduled = 0
        /\ hce_pc = "idle"

\* C32 witness: the turn-complete of a pending correction was handled while
\* the transfer question stood asked and answered, the state in which a
\* turn-complete otherwise ends the call.
C32_Witness ==
    /\ CorrectionTurn
    /\ seen.s.language_correction_pending
    /\ seen.s.transfer_question_asked_at
    /\ seen.s.transfer_question_answered
    /\ ~ session.language_correction_pending

\* ------------------------------------------------------------------------
\* Properties: premature transfer_call and end_call
\* ------------------------------------------------------------------------
\* a transfer_call past the grace period, no correction pending, the transfer
\* question not yet asked and answered, no explicit transfer phrase in the
\* caller's latest utterance
PrematureTransfer ==
    /\ last_fc.name = "transfer_call"
    /\ Age >= SETUP_GRACE_S
    /\ ~ WasPending
    /\ ~ (last_fc.s.transfer_question_asked_at /\ last_fc.s.transfer_question_answered)
    /\ ~ _is_explicit_transfer_request(last_fc.s.last_user_text)

SessionActive == ~ session.call_ending /\ ~ session.hangup_sent

LateEndCall == last_fc.name = "end_call" /\ Age >= SETUP_GRACE_S

\* the transfer question never asked and the call younger than 60 s
EndTooSoon == ~ last_fc.s.transfer_question_asked_at /\ Age < END_CALL_MIN_S

EndRejected == ErrorResponse /\ ~ session.call_ending

EndAccepted == session.call_ending /\ session.user_wants_transfer = "False"

\* C34 as stated: an end_call past the grace period is rejected exactly when
\* the transfer question was never asked and the call is younger than 60 s,
\* and accepted with user_wants_transfer false in every other case
C34_AsStated ==
    LateEndCall => IF EndTooSoon THEN EndRejected ELSE EndAccepted /\ OkResponse

\* C34: an end_call past the grace period, taken by an Active session with no
\* correction pending, is rejected with an error response exactly when the
\* transfer question was never asked and the call is younger than 60 s and is
\* accepted with user_wants_transfer false otherwise; while a correction is
\* pending it gets the neutral response and changes nothing; in a session that
\* is already ending it gets no response and is not accepted anew
C34_EndCallByState ==
    LateEndCall =>
        /\ (WasActive /\ ~ WasPending) =>
               IF EndTooSoon
               THEN EndRejected /\ FlagsKept
               ELSE EndAccepted /\ OkResponse
        /\ (WasActive /\ WasPending) => NeutralResponse /\ FlagsKept
        /\ ~ WasActive =>
               /\ fc_resps = << >>
               /\ session.user_wants_transfer = last_fc.s.user_wants_transfer
               /\ session.call_ending = last_fc.s.call_ending

C34_Witness ==
    /\ LateEndCall
    /\ WasActive
    /\ ~ WasPending
    /\ EndTooSoon
    /\ EndRejected
    /\ last_fc.s.last_user_text # NoText
\* ------------------------------------------------------------------------
\* The drain wait after the model's last audio: _handle_call_end polls the
\* queue while _audio_sender pops whole chunks from it. The queue holds what
\* the reader left in it, of any length; the model sends no more audio.
\* ------------------------------------------------------------------------
\* the longest queue followed: two chunks and a remainder
MaxQueued == 2 * ChunkSamples + 1

QueuedAudio == { [i \in 1..n |-> 1] : n \in 0..MaxQueued }

\* what the model still sends: no audio, no function call, no turn boundary
QuietMessages ==
    { m \in Messages : m.audio = << >> /\ m.fc = "none" /\ ~ m.turnComplete }

InitDrain ==
    /\ \E uwt \in {"True", "False"}, buf \in QueuedAudio :
           /\ session = [NewSession EXCEPT !.user_wants_transfer = uwt,
                                           !.call_ending = TRUE,
                                           !.hangup_sent = TRUE,
                                           !.output_buffer = buf]
           /\ ended_by = IF uwt = "True" THEN "transfer_call" ELSE "end_call"
    /\ now = 0
    /\ client_ws = "open"
    /\ gemini_ws = "open"
    /\ reader_pc = "recv"
    /\ reader_msg = NoMsg
    /\ sender_pc = "run"
    /\ handler_pc = "loop"
    /\ hce_pc = "drain"
    /\ hce_wait = 0
    /\ scheduled = 1
    /\ issued = << >>
    /\ closes = 0
    /\ finalized = 0
    /\ last_fc = NoFc
    /\ fc_resps = << >>
    /\ tc_after = 0
    /\ NothingObserved

NextDrain ==
    \/ \E m \in QuietMessages : ReaderRecv(m)
    \/ SenderSend
    \/ SenderExit
    \/ HceDrainPoll
    \/ HceDrainDone
    \/ HceIssue
    \/ \E api \in ApiOutcomes, has_number \in BOOLEAN : EndTransferDone(api, has_number)
    \/ \E api \in ApiOutcomes : EndHangupDone(api)
    \/ HceHangupClose
    \/ ClientEof
    \/ \E lost \in BOOLEAN : ClientError(lost)
    \/ HandlerSave

\* asyncio resumes the terminal action when its sleep has elapsed, and the
\* pacer's loop runs again after every send and every poll sleep
SpecDrain ==
    /\ InitDrain
    /\ [][NextDrain]_vars
    /\ WF_vars(HceSleepOver)
    /\ WF_vars(SenderSend)

QueueEmpty == session.output_buffer = << >>

\* C35 as stated: once the model has stopped appending audio the pacer
\* eventually empties the output queue, whatever its length, unless the
\* session is closed first
C35_AsStated == (hce_pc = "drain") ~> (QueueEmpty \/ session.closed)

\* a queue of whole chunks is emptied, unless the session is closed first
WholeChunksDrain ==
    (hce_pc = "drain" /\ Len(session.output_buffer) % ChunkSamples = 0)
        ~> (QueueEmpty \/ session.closed)

\* the drain wait has ended on its timeout with a remainder still queued
DrainTimedOut ==
    /\ hce_pc = "settle"
    /\ hce_wait = DrainPolls
    /\ Len(session.output_buffer) \in 1..(ChunkSamples - 1)
    /\ sender_pc = "run"
    /\ ~ session.closed
\* ------------------------------------------------------------------------
\* Properties: an accepted transfer is final
\* ------------------------------------------------------------------------
TransferWanted == session.user_wants_transfer = "True"

\* C36: once a transfer_call has been accepted user_wants_transfer stays true
\* and call_ending stays set, whatever function call or turn boundary follows,
\* and the terminal action of the session issues no hangup command: if it runs
\* it issues a transfer
C36_AcceptedTransferIsFinal ==
    /\ [](TransferWanted =>
              /\ session.call_ending
              /\ ended_by = "transfer_call"
              /\ \A i \in 1..Len(issued) : issued[i] = "transfer")
    /\ [][TransferWanted => TransferWanted']_vars

\* a transfer command issued although an end_call arrived after the acceptance
C36_Witness ==
    /\ TransferWanted
    /\ last_fc.name = "end_call"
    /\ last_fc.s.user_wants_transfer = "True"
    /\ issued = << "transfer" >>
\* ------------------------------------------------------------------------
\* Properties: the terminal action and the teardown
\* ------------------------------------------------------------------------
\* C37 as stated: once the finalize pass has run, the terminal action issues
\* no command and does not write call_control_event any more
C37_AsStated ==
    [][finalized >= 1 =>
           /\ issued' = issued
           /\ session'.call_control_event = session.call_control_event]_vars

\* the terminal action is still on its way when the handler has finished
TerminalActionOutlivesSession ==
    /\ handler_pc = "done"
    /\ finalized = 1
    /\ hce_pc \in {"drain", "settle", "transfer_api", "hangup_api", "hangup_sleep"}
\* ------------------------------------------------------------------------
\* The early connect task: handle_client starts GeminiLiveSession.connect()
\* as a task before it waits for the first client frame, and leaves through
\* its finally block on every path. The task and the handler interleave at
\* their awaits.
\* ------------------------------------------------------------------------
\* media frames followed in the receive loop
MaxMedia == 3

\* the first wait of the handler: a start frame, another frame, no frame in
\* 10 s, the client gone, a frame that is not JSON
FirstFrames == { "start", "other", "timeout", "disconnect", "garbage" }

\* how the setup exchange of connect() ends: send_json raises, or the wait for
\* the acknowledgement ends with a message, its timeout or an error
SetupEnds == { "send_raises", "message", "timeout", "recv_raises" }

\* what ends the receive loop
LoopEnds == { "stop", "lost", "error" }

\* GeminiLiveSession.close
close(assigned, sock) ==
    IF assigned /\ sock = "open" THEN "closed" ELSE sock

InitLink ==
    /\ session = NewSession
    /\ now = 0
    /\ client_ws = "open"
    /\ gemini_ws = "closed"
    /\ reader_pc = "none"
    /\ reader_msg = NoMsg
    /\ sender_pc = "none"
    /\ handler_pc = "first"
    /\ hce_pc = "idle"
    /\ hce_wait = 0
    /\ scheduled = 0
    /\ issued = << >>
    /\ closes = 0
    /\ finalized = 0
    /\ last_fc = NoFc
    /\ fc_resps = << >>
    /\ tc_after = 0
    /\ ended_by = "none"
    /\ NothingObserved

LinkFrame ==
    /\ NotTheReader
    /\ UNCHANGED << session, now, client_ws, gemini_ws, reader_pc, reader_msg,
                    sender_pc, handler_pc, hce_pc, hce_wait, scheduled, issued,
                    closes, finalized, tc_after, ended_by, end_obs, pacer_vars,
                    lang_obs, td_obs, tr_obs, xf_obs, cn_obs, st_obs >>

\* websockets.connect returns and self._ws is assigned
ConnectOpened ==
    /\ connect_pc = "opening"
    /\ ~ cancel_requested
    /\ model_sock' = "open"
    /\ ws_assigned' = TRUE
    /\ connect_pc' = "setup"
    /\ LinkFrame
    /\ UNCHANGED << hc_pc, exit_path, cancel_requested, media_seen >>

\* websockets.connect raises: no socket, the task ends with the exception
ConnectRefused ==
    /\ connect_pc = "opening"
    /\ ~ cancel_requested
    /\ connect_pc' = "failed"
    /\ LinkFrame
    /\ UNCHANGED << ws_assigned, model_sock, hc_pc, exit_path, cancel_requested,
                    media_seen >>

\* the setup message and the wait for its acknowledgement; on a socket that
\* was closed meanwhile the send or the receive raises
ConnectSetupOver(e) ==
    /\ connect_pc = "setup"
    /\ ~ cancel_requested
    /\ model_sock = "closed" => e \in {"send_raises", "recv_raises"}
    /\ connect_pc' = IF e = "send_raises" THEN "failed" ELSE "done"
    /\ LinkFrame
    /\ UNCHANGED << ws_assigned, model_sock, hc_pc, exit_path, cancel_requested,
                    media_seen >>

\* the cancellation reaches the task at its await: during the opening no
\* socket is left, afterwards self._ws stays as it is
ConnectCancelled ==
    /\ connect_pc \in {"opening", "setup"}
    /\ cancel_requested
    /\ connect_pc' = "cancelled"
    /\ LinkFrame
    /\ UNCHANGED << ws_assigned, model_sock, hc_pc, exit_path, cancel_requested,
                    media_seen >>

\* the wait for the first frame is over
LinkFirstWaitOver(f) ==
    /\ hc_pc = "first"
    /\ exit_path' = IF f = "start" THEN exit_path ELSE f
    /\ cancel_requested' = (f = "other" /\ connect_pc \in {"opening", "setup"})
    /\ hc_pc' = CASE f = "start" -> "await_connect"
                  [] f \in {"other", "timeout"} -> "finally"
                  [] OTHER -> "save"
    /\ LinkFrame
    /\ UNCHANGED << connect_pc, ws_assigned, model_sock, media_seen >>

\* await gemini_connect_task: the handler goes on, or takes the task's exception
LinkAwaitConnect ==
    /\ hc_pc = "await_connect"
    /\ connect_pc \in {"done", "failed"}
    /\ hc_pc' = IF connect_pc = "done" THEN "loop" ELSE "save"
    /\ exit_path' = IF connect_pc = "done" THEN exit_path ELSE "connect_failed"
    /\ LinkFrame
    /\ UNCHANGED << connect_pc, ws_assigned, model_sock, cancel_requested,
                    media_seen >>

\* a media frame in the receive loop
LinkMedia ==
    /\ hc_pc = "loop"
    /\ media_seen < MaxMedia
    /\ media_seen' = media_seen + 1
    /\ LinkFrame
    /\ UNCHANGED << connect_pc, ws_assigned, model_sock, hc_pc, exit_path,
                    cancel_requested >>

\* the receive loop ends
LinkLoopOver(e) ==
    /\ hc_pc = "loop"
    /\ exit_path' = e
    /\ hc_pc' = "save"
    /\ LinkFrame
    /\ UNCHANGED << connect_pc, ws_assigned, model_sock, cancel_requested,
                    media_seen >>

\* _save_call_data
LinkSave ==
    /\ hc_pc = "save"
    /\ hc_pc' = "finally"
    /\ LinkFrame
    /\ UNCHANGED << connect_pc, ws_assigned, model_sock, exit_path,
                    cancel_requested, media_seen >>

\* the finally block: session.gemini.close()
LinkFinally ==
    /\ hc_pc = "finally"
    /\ model_sock' = close(ws_assigned, model_sock)
    /\ hc_pc' = "done"
    /\ LinkFrame
    /\ UNCHANGED << connect_pc, ws_assigned, exit_path, cancel_requested,
                    media_seen >>

NextLink ==
    \/ ConnectOpened
    \/ ConnectRefused
    \/ \E e \in SetupEnds : ConnectSetupOver(e)
    \/ ConnectCancelled
    \/ \E f \in FirstFrames : LinkFirstWaitOver(f)
    \/ LinkAwaitConnect
    \/ LinkMedia
    \/ \E e \in LoopEnds : LinkLoopOver(e)
    \/ LinkSave
    \/ LinkFinally

SpecLink == InitLink /\ [][NextLink]_vars

\* the handler has returned and the connect task has ended
AllOver == hc_pc = "done" /\ connect_pc \in {"done", "failed", "cancelled"}

\* C38 as stated: on every exit path of handle_client, when the handler and
\* the connect task have ended the model WebSocket that connect() opened is
\* closed
C38_AsStated == AllOver => model_sock # "open"

\* the socket was opened after the finally block had run on the path of a
\* client that left before its first frame
LinkLeaked ==
    /\ AllOver
    /\ model_sock = "open"
    /\ exit_path = "disconnect"

\* on the paths that leave the handler after it awaited or cancelled the
\* connect task no socket is left open
ClosedAfterAwait ==
    (hc_pc = "done" /\ exit_path \in LoopEnds \cup {"other", "connect_failed"})
        => model_sock # "open"
\* ------------------------------------------------------------------------
\* Properties: what a cross-faded append keeps of the new chunk
\* ------------------------------------------------------------------------
\* the j-th sample of the chunk n has a part in the queue after the append:
\* a value in its place that is larger by two blending steps gives another
\* queue (one step can be lost where int() truncates towards zero)
Contributes(q, n, j) ==
    CrossfadeAppend(q, [n EXCEPT ![j] = @ + 2 * XFADE]) # CrossfadeAppend(q, n)

\* C39 as stated: for every non-empty queue, shorter than XFADE or not, and
\* every chunk longer than XFADE, every sample of the chunk contributes to the
\* queue, the first XFADE by being blended in and the others by being appended
C39_AsStated ==
    (appends > 0 /\ Len(buf_before) >= 1 /\ Len(last_chunk) > XFADE) =>
        /\ session.output_buffer = CrossfadeAppend(buf_before, last_chunk)
        /\ \A j \in 1..Len(last_chunk) : Contributes(buf_before, last_chunk, j)

\* what does hold: the same for queues of at least XFADE samples
NoLossOnLongQueues ==
    (appends > 0 /\ Len(buf_before) >= XFADE /\ Len(last_chunk) > XFADE) =>
        \A j \in 1..Len(last_chunk) : Contributes(buf_before, last_chunk, j)

\* a chunk appended to a queue of one sample: its first XFADE samples are gone
ShortQueueLosesAudio ==
    /\ appends > 0
    /\ Len(buf_before) = 1
    /\ Len(last_chunk) > XFADE
    /\ \A j \in 1..XFADE : ~ Contributes(buf_before, last_chunk, j)
\* ------------------------------------------------------------------------
\* Properties: the recorded outcome of the terminal action
\* ------------------------------------------------------------------------
EventRecorded == session.call_control_event.type # "none"

\* C40 as stated: the status recorded in call_control_event is "sent" if the
\* command reached the provider, by the API call or by the fallback, and
\* "failed" otherwise
C40_AsStated ==
    EventRecorded =>
        session.call_control_event.status = (IF delivered THEN "sent" ELSE "failed")

\* what does hold: the same for a transfer
TransferOutcomeRecorded ==
    session.call_control_event.type = "transfer" =>
        session.call_control_event.status = (IF delivered THEN "sent" ELSE "failed")

\* a hangup recorded as sent that reached the provider on neither way
HangupSentUndelivered ==
    /\ session.call_control_event = [type |-> "hangup", status |-> "sent"]
    /\ api_result = "failed"
    /\ fallbacks = 1
    /\ ~ delivered
====
